---- MODULE Spec2Model ----
(***************************************************************************)
(* Model of the scheduled reconciliation handler of the Tailscale monitor  *)
(* worker (src/src/index.js, `scheduled`) together with the part of the    *)
(* configuration loader it depends on (src/src/config.js).                 *)
(*                                                                         *)
(* Time is the value of Date.now() in milliseconds.  One scheduled         *)
(* invocation ("cycle") is a process that is suspended at each `await`:    *)
(* the store get, the notification send and the store put.  Two cycle      *)
(* slots allow two invocations to overlap; SpecSeq is the same program     *)
(* with a trigger that never fires while another cycle is running.         *)
(***************************************************************************)
EXTENDS Integers, Sequences, FiniteSets, TLC

\* ------------------------------------------------------------------------
\* Bounds of the model
\* ------------------------------------------------------------------------

\* The clock is followed for this many minutes.
MaxMinutes == 4

\* The token cache is followed for this many seconds.
MaxTokenSeconds == 6

\* Minutes of model time in the specification of the notification texts.
MaxMsgMinutes == 3

\* Reminder intervals of model time in the specification of the long
\* reminder interval.
MaxLongIntervals == 2

\* Cycles that find the tailnet empty, in the specification of the empty
\* device list.
MaxEmptyCycles == 2

\* Two cycles run at the same time only during the first so many minutes.
MaxOverlapMinutes == 2

\* ------------------------------------------------------------------------
\* Program constants and value domains
\* ------------------------------------------------------------------------

\* (1000 * 60): milliseconds per minute, the divisor of the reminder check.
MsPerMinute == 60000

\* Granularity with which the model lets Date.now() advance.
TickMs == MsPerMinute

MaxClock == MaxMinutes * MsPerMinute

MaxOverlapClock == MaxOverlapMinutes * MsPerMinute

\* The devices the liveness source reports, in the order of its list.
\* The store key `node:<id>:<shortName>` is a function of the device, so
\* a device stands for its key.
DeviceList == <<"d1", "d2">>

Devices == {DeviceList[i] : i \in 1..Len(DeviceList)}

\* The two invocation slots that may be running at the same time.
Cycles == {1, 2}

\* JavaScript null as the `state` of the default prior record.
Null == "null"

\* What config.nodeStatusKV.get returns for a key that was never written.
NullJSON == <<>>

\* Values of env.REMINDER_INTERVAL_MINUTES (strings, as character lists).
EnvReminderChoices == { <<"0">>, <<"1">>, <<" ", "2", "m">>, <<"m">> }

\* ------------------------------------------------------------------------
\* config.js: parseInt(env.REMINDER_INTERVAL_MINUTES, 10)
\* ------------------------------------------------------------------------

IsDigit(ch) == ch \in {"0", "1", "2", "3", "4", "5", "6", "7", "8", "9"}

DigitVal(ch) ==
  CASE ch = "0" -> 0 [] ch = "1" -> 1 [] ch = "2" -> 2 [] ch = "3" -> 3
    [] ch = "4" -> 4 [] ch = "5" -> 5 [] ch = "6" -> 6 [] ch = "7" -> 7
    [] ch = "8" -> 8 [] ch = "9" -> 9

RECURSIVE SkipWhite(_)
SkipWhite(s) ==
  IF s # <<>> /\ Head(s) = " " THEN SkipWhite(Tail(s)) ELSE s

RECURSIVE LeadingDigits(_)
LeadingDigits(s) ==
  IF s # <<>> /\ IsDigit(Head(s)) THEN <<Head(s)>> \o LeadingDigits(Tail(s))
  ELSE <<>>

RECURSIVE DigitsValue(_, _)
DigitsValue(ds, acc) ==
  IF ds = <<>> THEN acc ELSE DigitsValue(Tail(ds), acc * 10 + DigitVal(Head(ds)))

\* A JavaScript number that may be NaN.
NaN == [isNaN |-> TRUE, n |-> 0]

Num(n) == [isNaN |-> FALSE, n |-> n]

\* parseInt(s, 10): leading white space is skipped, an optional sign is
\* read, then the longest run of decimal digits; no digit at all gives NaN.
ParseInt10(s) ==
  LET t    == SkipWhite(s)
      neg  == t # <<>> /\ Head(t) = "-"
      body == IF t # <<>> /\ Head(t) \in {"-", "+"} THEN Tail(t) ELSE t
      ds   == LeadingDigits(body)
  IN  IF ds = <<>> THEN NaN
      ELSE Num(IF neg THEN 0 - DigitsValue(ds, 0) ELSE DigitsValue(ds, 0))

\* loadAppConfig: the field of the configuration the handler reads.
loadAppConfig(env) == [reminderIntervalMinutes |-> ParseInt10(env)]

\* ------------------------------------------------------------------------
\* The stored record and its JSON form
\* ------------------------------------------------------------------------

StateRec(s, a, f) == [state |-> s, alertTs |-> a, firstDownTs |-> f]

\* JSON.stringify of { state, alertTs, firstDownTs }: the stored text is
\* modelled as the list of the three member values in member order.
JSONStringify(r) == <<r.state, r.alertTs, r.firstDownTs>>

JSONParse(j) == StateRec(j[1], j[2], j[3])

\* storedStateJSON ? JSON.parse(storedStateJSON)
\*                 : { state: null, alertTs: 0, firstDownTs: 0 }
PreviousStateData(storedStateJSON) ==
  IF storedStateJSON # NullJSON THEN JSONParse(storedStateJSON)
  ELSE StateRec(Null, 0, 0)

\* ------------------------------------------------------------------------
\* index.js: the decision made for one device (lines 158-255)
\* ------------------------------------------------------------------------

Decision(alert, needsKVWrite, newKVData) ==
  [alert |-> alert, needsKVWrite |-> needsKVWrite, newKVData |-> newKVData]

\* newKVData = { state: "ONLINE", alertTs: 0, firstDownTs: 0 }
OnlineRecord == StateRec("ONLINE", 0, 0)

\* Variant: the reminder restarts the outage clock.
FirstDownTimestamp_Now(previousStateData, now) == now

\* previousStateData.state === "OFFLINE" && previousStateData.firstDownTs
\*   ? previousStateData.firstDownTs : now
FirstDownTimestamp(previousStateData, now) ==
  IF previousStateData.state = "OFFLINE" /\ previousStateData.firstDownTs # 0
  THEN previousStateData.firstDownTs
  ELSE now

\* Variant: the interval is counted from the start of the outage.
ReminderDue_FromFirstDown(previousStateData, now, reminderIntervalMinutes) ==
  /\ ~reminderIntervalMinutes.isNaN
  /\ now - previousStateData.firstDownTs
       >= reminderIntervalMinutes.n * MsPerMinute

\* Variant: the elapsed time is converted to seconds, not minutes.
ReminderDue_Seconds(previousStateData, now, reminderIntervalMinutes) ==
  /\ ~reminderIntervalMinutes.isNaN
  /\ now - previousStateData.alertTs >= reminderIntervalMinutes.n * 1000

\* Variant: the reminder waits until the interval is exceeded.
ReminderDue_Strict(previousStateData, now, reminderIntervalMinutes) ==
  /\ ~reminderIntervalMinutes.isNaN
  /\ now - previousStateData.alertTs > reminderIntervalMinutes.n * MsPerMinute

\* minutesSinceLastAlert = (now - alertTs) / (1000 * 60);
\* minutesSinceLastAlert >= config.reminderIntervalMinutes.
\* The division is kept exact by multiplying the interval instead; a
\* comparison with NaN is false.
ReminderDue(previousStateData, now, reminderIntervalMinutes) ==
  /\ ~reminderIntervalMinutes.isNaN
  /\ now - previousStateData.alertTs >= reminderIntervalMinutes.n * MsPerMinute

\* Variant: the alert time is not stamped on the record.
OfflineRecord_NoAlertTs(alertTs, firstDownTs) ==
  StateRec("OFFLINE", 0, firstDownTs)

\* newKVData = { state: "OFFLINE", alertTs: now,
\*               firstDownTs: firstDownTimestamp }
OfflineRecord(alertTs, firstDownTs) == StateRec("OFFLINE", alertTs, firstDownTs)

\* Variant: the alert is sent but the write is not requested.
DownBranch_NoWrite(previousStateData, now) ==
  Decision("down", FALSE, previousStateData)

\* Variant: firstDownTimestamp is not reset to now.
DownBranch_PriorFirstDown(previousStateData, now) ==
  Decision("down", TRUE, OfflineRecord(now, previousStateData.firstDownTs))

\* Observed offline, prior state not OFFLINE: firstDownTimestamp = now,
\* the initial alert is sent, the record is {OFFLINE, now, now}.
DownBranch(previousStateData, now) ==
  Decision("down", TRUE, OfflineRecord(now, now))

\* Variant: newKVData starts from the default record, not from a copy of
\* the prior one.
StillDownBranch_FromDefault(previousStateData, now, reminderIntervalMinutes) ==
  IF ReminderDue(previousStateData, now, reminderIntervalMinutes)
  THEN Decision("reminder", TRUE,
                OfflineRecord(now, FirstDownTimestamp(previousStateData, now)))
  ELSE Decision("none", FALSE, StateRec(Null, 0, 0))

\* Observed offline, prior state OFFLINE: a reminder when it is due.
StillDownBranch(previousStateData, now, reminderIntervalMinutes) ==
  IF ReminderDue(previousStateData, now, reminderIntervalMinutes)
  THEN Decision("reminder", TRUE,
                OfflineRecord(now, FirstDownTimestamp(previousStateData, now)))
  ELSE Decision("none", FALSE, previousStateData)

\* Variant: only the state is changed, the timestamps are kept.
RecoveryBranch_KeepsTs(previousStateData) ==
  Decision("recovery", TRUE, [previousStateData EXCEPT !.state = "ONLINE"])

\* Variant: the recovery is announced but the record is not rewritten.
RecoveryBranch_NoWrite(previousStateData) ==
  Decision("recovery", FALSE, previousStateData)

\* Observed online, prior state OFFLINE: the recovery alert, both
\* timestamps reset.
RecoveryBranch(previousStateData) == Decision("recovery", TRUE, OnlineRecord)

\* Variant: the record is rewritten whenever the device is online.
OnlineBranch_Rewrites(previousStateData) == Decision("none", TRUE, OnlineRecord)

\* Variant: a device first seen online is not recorded.
OnlineBranch_NoMaterialize(previousStateData) ==
  Decision("none", FALSE, previousStateData)

\* Observed online, prior state not OFFLINE: only a new device is written.
OnlineBranch(previousStateData) ==
  IF previousStateData.state = Null
  THEN Decision("none", TRUE, OnlineRecord)
  ELSE Decision("none", FALSE, previousStateData)

\* Which notification is attempted ("none" when none is), whether the
\* store is written, and the record that is written.
Reconcile(previousStateData, isOnline, now, reminderIntervalMinutes) ==
  IF ~isOnline
  THEN IF previousStateData.state # "OFFLINE"
       THEN DownBranch(previousStateData, now)
       ELSE StillDownBranch(previousStateData, now, reminderIntervalMinutes)
  ELSE IF previousStateData.state = "OFFLINE"
       THEN RecoveryBranch(previousStateData)
       ELSE OnlineBranch(previousStateData)

\* ------------------------------------------------------------------------
\* State
\* ------------------------------------------------------------------------

VARIABLES
  envReminder,   \* env.REMINDER_INTERVAL_MINUTES of the deployment
  clock,         \* Date.now()
  kv,            \* config.nodeStatusKV: key -> stored JSON (NullJSON: no entry)
  run,           \* per invocation slot: where the handler is and its locals
  lastOffAlert   \* history: per device, `now` of the latest initial-down or
                 \* reminder attempt of the open outage episode (0: none)

vars == <<envReminder, clock, kv, run, lastOffAlert>>

\* An invocation slot in which no handler is running.
IdleRun ==
  [pc |-> "idle", obs |-> [d \in Devices |-> TRUE], idx |-> 0,
   stored |-> NullJSON, now |-> 0, alerts |-> <<>>, writes |-> <<>>,
   needsKVWrite |-> FALSE, newKVData |-> StateRec(Null, 0, 0)]

\* The device (store key) the loop of slot c is at.
Node(c) == DeviceList[run[c].idx]

config == loadAppConfig(envReminder)

Init ==
  /\ envReminder \in EnvReminderChoices
  /\ clock = TickMs
  /\ kv = [d \in Devices |-> NullJSON]
  /\ run = [c \in Cycles |-> IdleRun]
  /\ lastOffAlert = [d \in Devices |-> 0]

\* ------------------------------------------------------------------------
\* Actions
\* ------------------------------------------------------------------------

\* The slots in which a handler is running.
Running == {c \in Cycles : run[c].pc # "idle"}

\* Time passes.
Tick ==
  /\ clock + TickMs <= MaxClock
  /\ Cardinality(Running) > 1 => clock + TickMs <= MaxOverlapClock
  /\ clock' = clock + TickMs
  /\ UNCHANGED <<envReminder, kv, run, lastOffAlert>>

\* The cron trigger fires, the configuration loads and
\* getTailscaleNodeDetails resolves with one verdict per device; the loop
\* is entered at the first device.
StartCycle(c) ==
  /\ run[c].pc = "idle"
  /\ Running # {} => clock <= MaxOverlapClock
  /\ \E obs \in [Devices -> BOOLEAN] :
       run' = [run EXCEPT ![c] = [IdleRun EXCEPT !.pc = "get", !.obs = obs,
                                                  !.idx = 1]]
  /\ UNCHANGED <<envReminder, clock, kv, lastOffAlert>>

\* The trigger of a deployment whose cycles never overlap.
StartCycleSeq(c) ==
  /\ \A o \in Cycles : run[o].pc = "idle"
  /\ StartCycle(c)

\* await config.nodeStatusKV.get(kvKey) resolves.
KVGet(c) ==
  /\ run[c].pc = "get"
  /\ run' = [run EXCEPT ![c].stored = kv[Node(c)], ![c].pc = "decide"]
  /\ UNCHANGED <<envReminder, clock, kv, lastOffAlert>>

\* Variant: an alert is sent a second time.
Decide_Resend(c) ==
  /\ run[c].pc = "decide"
  /\ LET d   == Node(c)
         r   == Reconcile(PreviousStateData(run[c].stored), run[c].obs[d],
                          clock, config.reminderIntervalMinutes)
     IN  /\ run' = [run EXCEPT
                      ![c].now = clock,
                      ![c].alerts = IF r.alert = "none" THEN <<>>
                                    ELSE <<r.alert, r.alert>>,
                      ![c].needsKVWrite = r.needsKVWrite,
                      ![c].newKVData = r.newKVData,
                      ![c].pc = IF r.needsKVWrite THEN "put" ELSE "next"]
         /\ lastOffAlert' =
              [lastOffAlert EXCEPT ![d] =
                 CASE r.alert \in {"down", "reminder"} -> clock
                   [] r.alert = "recovery" -> 0
                   [] OTHER -> @]
  /\ UNCHANGED <<envReminder, clock, kv>>

\* The synchronous part after the get: the prior record is parsed, `now`
\* is taken, the branch is chosen and, in an alerting branch,
\* sendTelegramNotification is called.
Decide(c) ==
  /\ run[c].pc = "decide"
  /\ LET d   == Node(c)
         r   == Reconcile(PreviousStateData(run[c].stored), run[c].obs[d],
                          clock, config.reminderIntervalMinutes)
     IN  /\ run' = [run EXCEPT
                      ![c].now = clock,
                      ![c].alerts = IF r.alert = "none" THEN <<>> ELSE <<r.alert>>,
                      ![c].needsKVWrite = r.needsKVWrite,
                      ![c].newKVData = r.newKVData,
                      ![c].pc = IF r.needsKVWrite THEN "put" ELSE "next"]
         /\ lastOffAlert' =
              [lastOffAlert EXCEPT ![d] =
                 CASE r.alert \in {"down", "reminder"} -> clock
                   [] r.alert = "recovery" -> 0
                   [] OTHER -> @]
  /\ UNCHANGED <<envReminder, clock, kv>>

\* The notification call has returned (its result is not looked at) and
\* await config.nodeStatusKV.put(kvKey, JSON.stringify(newKVData)) lands.
KVPut(c) ==
  /\ run[c].pc = "put"
  /\ kv' = [kv EXCEPT ![Node(c)] = JSONStringify(run[c].newKVData)]
  /\ run' = [run EXCEPT ![c].writes = <<run[c].newKVData>>, ![c].pc = "next"]
  /\ UNCHANGED <<envReminder, clock, lastOffAlert>>

\* The for loop moves to the next device, or the handler ends.
NextNode(c) ==
  /\ run[c].pc = "next"
  /\ run' = [run EXCEPT ![c] =
               IF run[c].idx < Len(DeviceList)
               THEN [IdleRun EXCEPT !.pc = "get", !.obs = run[c].obs,
                                    !.idx = run[c].idx + 1]
               ELSE IdleRun]
  /\ UNCHANGED <<envReminder, clock, kv, lastOffAlert>>

Next ==
  \/ Tick
  \/ \E c \in Cycles : StartCycle(c)
  \/ \E c \in Cycles : KVGet(c)
  \/ \E c \in Cycles : Decide(c)
  \/ \E c \in Cycles : KVPut(c)
  \/ \E c \in Cycles : NextNode(c)

NextSeq ==
  \/ Tick
  \/ \E c \in Cycles : StartCycleSeq(c)
  \/ \E c \in Cycles : KVGet(c)
  \/ \E c \in Cycles : Decide(c)
  \/ \E c \in Cycles : KVPut(c)
  \/ \E c \in Cycles : NextNode(c)

\* Cycles may overlap.
Spec == Init /\ [][Next]_vars

\* Cycles never overlap.
SpecSeq == Init /\ [][NextSeq]_vars

TypeOK ==
  /\ envReminder \in EnvReminderChoices
  /\ clock \in 1..MaxClock
  /\ \A d \in Devices : kv[d] = NullJSON \/ Len(kv[d]) = 3
  /\ \A c \in Cycles : run[c].pc \in {"idle", "get", "decide", "put", "next"}

\* ------------------------------------------------------------------------
\* Vocabulary of the properties
\* ------------------------------------------------------------------------

\* Slot c has finished one device: decision made, notification attempted
\* and store written where the decision asked for it.
Processed(c) == run[c].pc = "next"

\* The prior record the handler of slot c worked from.
Prev(c) == PreviousStateData(run[c].stored)

\* The verdict the handler of slot c has for the device it is at.
ObservedOnline(c) == run[c].obs[Node(c)]

\* The configured reminder interval in milliseconds is reached by `ms`.
IntervalReached(ms) ==
  /\ ~config.reminderIntervalMinutes.isNaN
  /\ ms >= config.reminderIntervalMinutes.n * MsPerMinute

\* The record stored under the key of device d.
Persisted(d) == JSONParse(kv[d])

\* C1: a device observed offline whose prior record is absent or ONLINE gets
\* exactly one initial-down notification attempt, and the record
\* {OFFLINE, now, now} (one `now` in both fields) is put under its key.
C1_InitialDown ==
  \A c \in Cycles :
    (Processed(c) /\ ~ObservedOnline(c) /\ Prev(c).state \in {Null, "ONLINE"})
      => /\ run[c].alerts = <<"down">>
         /\ run[c].writes = <<StateRec("OFFLINE", run[c].now, run[c].now)>>
         /\ kv[Node(c)] # NullJSON
         /\ Persisted(Node(c)) = StateRec("OFFLINE", run[c].now, run[c].now)

C1_Witness ==
  \E c \in Cycles :
    /\ Processed(c) /\ ~ObservedOnline(c) /\ Prev(c).state = "ONLINE"
    /\ run[c].alerts = <<"down">>
    /\ Persisted(Node(c)).firstDownTs = run[c].now

\* C2: every record written with state ONLINE has alertTs = 0 and
\* firstDownTs = 0; a device with prior state OFFLINE observed online gets
\* one recovery notification attempt and the record {ONLINE, 0, 0}.
C2_OnlineClears ==
  /\ \A d \in Devices :
       (kv[d] # NullJSON /\ Persisted(d).state = "ONLINE")
         => Persisted(d).alertTs = 0 /\ Persisted(d).firstDownTs = 0
  /\ \A c \in Cycles :
       /\ \A i \in 1..Len(run[c].writes) :
            run[c].writes[i].state = "ONLINE"
              => run[c].writes[i].alertTs = 0 /\ run[c].writes[i].firstDownTs = 0
       /\ (Processed(c) /\ ObservedOnline(c) /\ Prev(c).state = "OFFLINE")
            => /\ run[c].alerts = <<"recovery">>
               /\ run[c].writes = <<StateRec("ONLINE", 0, 0)>>
               /\ Persisted(Node(c)) = StateRec("ONLINE", 0, 0)

C2_Witness ==
  \E c \in Cycles :
    /\ Processed(c) /\ ObservedOnline(c) /\ Prev(c).state = "OFFLINE"
    /\ Prev(c).firstDownTs # 0
    /\ run[c].alerts = <<"recovery">>
    /\ Persisted(Node(c)).state = "ONLINE"

\* C3: for a prior record {OFFLINE, A, F} observed offline at `now`, a
\* reminder is attempted iff now - A reaches the reminder interval (F plays
\* no part); when it is, the record becomes {OFFLINE, now, F}.
C3_Reminder ==
  \A c \in Cycles :
    (Processed(c) /\ ~ObservedOnline(c) /\ Prev(c).state = "OFFLINE")
      => /\ run[c].alerts \in {<<>>, <<"reminder">>}
         /\ run[c].alerts = <<"reminder">>
              <=> IntervalReached(run[c].now - Prev(c).alertTs)
         /\ run[c].alerts = <<"reminder">>
              => /\ run[c].writes =
                      <<StateRec("OFFLINE", run[c].now, Prev(c).firstDownTs)>>
                 /\ Persisted(Node(c)) =
                      StateRec("OFFLINE", run[c].now, Prev(c).firstDownTs)

\* A second reminder: the prior record has alertTs later than firstDownTs.
C3_Witness ==
  \E c \in Cycles :
    /\ Processed(c) /\ ~ObservedOnline(c) /\ Prev(c).state = "OFFLINE"
    /\ Prev(c).alertTs > Prev(c).firstDownTs
    /\ run[c].alerts = <<"reminder">>
    /\ run[c].now > Prev(c).alertTs
    /\ Persisted(Node(c)).firstDownTs = Prev(c).firstDownTs

\* C4: prior ONLINE observed online, and prior OFFLINE observed offline
\* before the reminder interval has passed, attempt no notification and put
\* nothing: the stored record stays as it was read.
C4_NoOp ==
  \A c \in Cycles :
    (/\ Processed(c)
     /\ \/ ObservedOnline(c) /\ Prev(c).state = "ONLINE"
        \/ /\ ~ObservedOnline(c) /\ Prev(c).state = "OFFLINE"
           /\ ~config.reminderIntervalMinutes.isNaN
           /\ run[c].now - Prev(c).alertTs
                < config.reminderIntervalMinutes.n * MsPerMinute)
      => /\ run[c].alerts = <<>>
         /\ run[c].writes = <<>>
         /\ kv[Node(c)] = run[c].stored

\* Still offline, some time after the last alert, interval not yet reached.
C4_Witness ==
  \E c \in Cycles :
    /\ Processed(c) /\ ~ObservedOnline(c) /\ Prev(c).state = "OFFLINE"
    /\ run[c].now > Prev(c).alertTs
    /\ ~IntervalReached(run[c].now - Prev(c).alertTs)
    /\ ~config.reminderIntervalMinutes.isNaN
    /\ run[c].writes = <<>>

\* C5: the handler puts a device's record iff it attempted a notification
\* for the device or the device had no prior record; a never-seen device
\* observed online gets exactly one put, of {ONLINE, 0, 0}, and no
\* notification.
C5_WriteIff ==
  \A c \in Cycles :
    Processed(c)
      => /\ Len(run[c].writes) <= 1
         /\ run[c].writes # <<>>
              <=> (run[c].alerts # <<>> \/ run[c].stored = NullJSON)
         /\ (ObservedOnline(c) /\ run[c].stored = NullJSON)
              => /\ run[c].alerts = <<>>
                 /\ run[c].writes = <<StateRec("ONLINE", 0, 0)>>
                 /\ Persisted(Node(c)) = StateRec("ONLINE", 0, 0)

C5_Witness ==
  \E c \in Cycles :
    /\ Processed(c) /\ ObservedOnline(c) /\ run[c].stored = NullJSON
    /\ run[c].alerts = <<>>
    /\ run[c].writes # <<>>
    /\ kv[Node(c)] # NullJSON

\* C6: without overlap, two consecutive initial-down or reminder attempts
\* for one device within one outage episode are at least the reminder
\* interval apart.
C6_ReminderSpacing ==
  [][\A d \in Devices :
       (lastOffAlert[d] # 0 /\ lastOffAlert'[d] # 0
          /\ lastOffAlert'[d] # lastOffAlert[d])
         => IntervalReached(lastOffAlert'[d] - lastOffAlert[d])]_vars

\* A reminder has been attempted under an interval of two minutes.
C6_Witness ==
  \E c \in Cycles :
    /\ Processed(c) /\ run[c].alerts = <<"reminder">>
    /\ config.reminderIntervalMinutes = Num(2)
    /\ lastOffAlert[Node(c)] = run[c].now
    /\ run[c].now - Prev(c).alertTs >= 2 * MsPerMinute

\* C7: from an empty store, overlapping cycles included, every stored
\* record has firstDownTs non-zero iff its state is OFFLINE.
C7_FirstDownIffOffline ==
  \A d \in Devices :
    kv[d] # NullJSON
      => (Persisted(d).firstDownTs # 0 <=> Persisted(d).state = "OFFLINE")

\* Two overlapping cycles have both written the same device's record.
C7_Witness ==
  \E d \in Devices :
    /\ \A c \in Cycles : Processed(c) /\ Node(c) = d /\ run[c].writes # <<>>
    /\ Persisted(d).state = "OFFLINE"
    /\ Persisted(d).firstDownTs # 0

\* C8: without overlap, while the stored state stays OFFLINE the stored
\* firstDownTs does not change.
C8_FirstDownKept ==
  [][\A d \in Devices :
       (/\ kv[d] # NullJSON /\ kv'[d] # NullJSON
        /\ JSONParse(kv[d]).state = "OFFLINE"
        /\ JSONParse(kv'[d]).state = "OFFLINE")
         => JSONParse(kv'[d]).firstDownTs = JSONParse(kv[d]).firstDownTs]_vars

\* A reminder has rewritten the record of an outage that began earlier.
C8_Witness ==
  \E c \in Cycles :
    /\ Processed(c) /\ run[c].alerts = <<"reminder">>
    /\ Persisted(Node(c)).state = "OFFLINE"
    /\ Persisted(Node(c)).alertTs = run[c].now
    /\ Persisted(Node(c)).firstDownTs < run[c].now
    /\ Persisted(Node(c)).firstDownTs # 0

\* C9: every stored record has alertTs <= the current time, and a stored
\* OFFLINE record has a non-zero alertTs.
C9_AlertTs ==
  \A d \in Devices :
    kv[d] # NullJSON
      => /\ Persisted(d).alertTs <= clock
         /\ Persisted(d).state = "OFFLINE" => Persisted(d).alertTs # 0

\* An OFFLINE record whose alert lies in the past.
C9_Witness ==
  \E d \in Devices :
    /\ kv[d] # NullJSON
    /\ Persisted(d).state = "OFFLINE"
    /\ Persisted(d).alertTs > 0
    /\ Persisted(d).alertTs < clock

\* C10: reconciling again, with the record the first reconciliation
\* produced as the prior, the same observation and the same `now`, puts
\* nothing and attempts no notification.
C10_Idempotent ==
  \A c \in Cycles :
    Processed(c)
      => LET again == Reconcile(run[c].newKVData, ObservedOnline(c),
                                run[c].now, config.reminderIntervalMinutes)
         IN  again.alert = "none" /\ ~again.needsKVWrite

\* ========================================================================
\* The handler with its failure paths, the configuration check and the
\* tag filter (SpecErr).  The decision itself is the one above.
\* ========================================================================

\* ------------------------------------------------------------------------
\* envChecker.js and config.js
\* ------------------------------------------------------------------------

\* The keys of ALL_REQUIRED_KEYS the model follows.
ALL_REQUIRED_KEYS ==
  {"API_ACCESS_TOKEN_WORKER", "TELEGRAM_BOT_TOKEN", "TELEGRAM_CHAT_ID",
   "REMINDER_INTERVAL_MINUTES", "MONITOR_TAGS"}

\* if (!env[key]) missingKeys.push(key): an absent setting and the empty
\* string are both the empty character list.
MissingKeys(env, requiredKeys) == {k \in requiredKeys : env[k] = <<>>}

\* Variant: a single missing key is let through.
EnsureRequiredEnvThrows_MoreThanOne(env, requiredKeys) ==
  Cardinality({k \in requiredKeys : env[k] = <<>>}) > 1

\* ensureRequiredEnv throws when a key is missing.
EnsureRequiredEnvThrows(env, requiredKeys) == MissingKeys(env, requiredKeys) # {}

\* s.split(","): the pieces between the commas ("" gives one empty piece).
RECURSIVE SplitComma(_)
SplitComma(s) ==
  IF \A i \in 1..Len(s) : s[i] # "," THEN <<s>>
  ELSE LET i == CHOOSE i \in 1..Len(s) :
                  s[i] = "," /\ \A j \in 1..(i - 1) : s[j] # ","
       IN  <<SubSeq(s, 1, i - 1)>> \o SplitComma(SubSeq(s, i + 1, Len(s)))

RECURSIVE TrimRight(_)
TrimRight(s) ==
  IF s # <<>> /\ s[Len(s)] = " " THEN TrimRight(SubSeq(s, 1, Len(s) - 1)) ELSE s

\* tag.trim()
Trim(s) == TrimRight(SkipWhite(s))

\* (env.MONITOR_TAGS || "").split(",").map(trim).filter(length > 0)
MonitorTags(str) ==
  LET parts == SplitComma(str)
  IN  SelectSeq([i \in 1..Len(parts) |-> Trim(parts[i])], LAMBDA t : t # <<>>)

\* loadAppConfig over the whole environment: whether it throws, and the
\* configuration it returns when it does not.
LoadAppConfigThrows(env) == EnsureRequiredEnvThrows(env, ALL_REQUIRED_KEYS)

AppConfig(env) ==
  [apiAccessTokenWorker |-> env.API_ACCESS_TOKEN_WORKER,
   telegramBotToken |-> env.TELEGRAM_BOT_TOKEN,
   telegramChatId |-> env.TELEGRAM_CHAT_ID,
   reminderIntervalMinutes |->
     loadAppConfig(env.REMINDER_INTERVAL_MINUTES).reminderIntervalMinutes,
   monitorTags |-> MonitorTags(env.MONITOR_TAGS)]

\* ------------------------------------------------------------------------
\* index.js lines 113-135: the tag filter
\* ------------------------------------------------------------------------

\* Variant: every tag of the device has to be a configured one.
DeviceHasRequiredTag_Every(nodeTags, monitorTags) ==
  \A i \in 1..Len(nodeTags) : \E j \in 1..Len(monitorTags) :
    nodeTags[i] = monitorTags[j]

\* node.tags.some((deviceTag) => config.monitorTags.includes(deviceTag))
DeviceHasRequiredTag(nodeTags, monitorTags) ==
  \E i \in 1..Len(nodeTags) : \E j \in 1..Len(monitorTags) :
    nodeTags[i] = monitorTags[j]

\* The loop body goes on to the status check (TRUE) or `continue`s (FALSE).
PassesFilter(nodeTags, monitorTags) ==
  IF Len(monitorTags) > 0 THEN DeviceHasRequiredTag(nodeTags, monitorTags)
  ELSE TRUE

\* ------------------------------------------------------------------------
\* telegramNotifier.js: sendTelegramNotification
\* ------------------------------------------------------------------------

\* What the Telegram request does: answers ok, answers with an API error,
\* or fails in fetch / response.json().
NetOutcomes == {"ok", "api_error", "fetch_error"}

\* Variant: the request is made outside the try block.
SendTelegramNotification_NoCatch(botToken, chatId, net) ==
  IF botToken = <<>> \/ chatId = <<>>
  THEN [threw |-> FALSE, success |-> FALSE]
  ELSE CASE net = "ok"          -> [threw |-> FALSE, success |-> TRUE]
         [] net = "api_error"   -> [threw |-> FALSE, success |-> FALSE]
         [] net = "fetch_error" -> [threw |-> TRUE, success |-> FALSE]

\* The value the call settles with; threw = TRUE would be a rejection.
SendTelegramNotification(botToken, chatId, net) ==
  IF botToken = <<>> \/ chatId = <<>>
  THEN [threw |-> FALSE, success |-> FALSE]
  ELSE CASE net = "ok"          -> [threw |-> FALSE, success |-> TRUE]
         [] net = "api_error"   -> [threw |-> FALSE, success |-> FALSE]
         [] net = "fetch_error" -> [threw |-> FALSE, success |-> FALSE]

\* ------------------------------------------------------------------------
\* Inputs of SpecErr
\* ------------------------------------------------------------------------

\* Values of env.MONITOR_TAGS: unset, "," , "a" , " a,c".
EnvMonitorTagsChoices == { <<>>, <<",">>, <<"a">>, <<" ", "a", ",", "c">> }

\* The environments an invocation may be given: every MONITOR_TAGS value
\* with the bot token set, and one environment without the bot token.
EnvChoices ==
  { [API_ACCESS_TOKEN_WORKER |-> <<"s">>,
     TELEGRAM_BOT_TOKEN |-> <<"t">>, TELEGRAM_CHAT_ID |-> <<"1">>,
     REMINDER_INTERVAL_MINUTES |-> envReminder, MONITOR_TAGS |-> m] :
       m \in EnvMonitorTagsChoices }
  \cup
  { [API_ACCESS_TOKEN_WORKER |-> <<"s">>,
     TELEGRAM_BOT_TOKEN |-> <<>>, TELEGRAM_CHAT_ID |-> <<"1">>,
     REMINDER_INTERVAL_MINUTES |-> envReminder, MONITOR_TAGS |-> <<"a">>] }

\* The tag lists (device.tags || []) of the two devices in one answer of
\* the liveness source: each device is seen with each of three tag lists.
DeviceTagAssignments ==
  { [d \in Devices |-> IF d = DeviceList[1] THEN p[1] ELSE p[2]] :
      p \in { << <<>>, << <<"a">> >> >>,
              << << <<"a">> >>, << <<"b">>, <<"c">> >> >>,
              << << <<"b">>, <<"c">> >>, <<>> >> } }

\* SpecErr runs its invocations in one slot.
ErrCycles == {c \in Cycles : \A o \in Cycles : c <= o}

\* A stored value JSON.parse throws on.
Corrupt == <<"{">>

JSONParseThrows(j) == j = Corrupt

\* ------------------------------------------------------------------------
\* SpecErr: state and actions
\* ------------------------------------------------------------------------

\* An idle slot; besides the locals of the loop body it carries what the
\* invocation was given and a log of what it has done so far.
IdleRunE ==
  [pc |-> "idle", obs |-> [d \in Devices |-> TRUE], idx |-> 0,
   stored |-> NullJSON, now |-> 0, alerts |-> <<>>, writes |-> <<>>,
   needsKVWrite |-> FALSE, newKVData |-> StateRec(Null, 0, 0),
   env |-> [k \in ALL_REQUIRED_KEYS |-> <<>>],
   tags |-> [d \in Devices |-> <<>>],
   fetched |-> FALSE,      \* getTailscaleNodeDetails was called
   gets |-> <<>>,          \* devices whose key was read (get called)
   puts |-> <<>>,          \* devices whose key was written (put called)
   devAlerts |-> <<>>,     \* <<device, kind>> of each device notification
   errAlerts |-> 0,        \* number of "Worker Error" notifications
   reconciled |-> {},      \* devices whose loop body ran to its end
   skipped |-> {},         \* devices the tag filter `continue`d over
   failed |-> "none",      \* what threw: config, fetch, get, parse, put
   failedAt |-> "none",    \* the device the loop was at when it threw
   notifyResult |-> [threw |-> FALSE, success |-> TRUE]]

InitErr ==
  /\ envReminder \in EnvReminderChoices
  /\ clock = TickMs
  /\ kv \in [Devices -> {NullJSON, Corrupt}]
  /\ run = [c \in Cycles |-> IdleRunE]
  /\ lastOffAlert = [d \in Devices |-> 0]

\* The fields of the loop body, reset at the start of each iteration.
BodyReset(r) ==
  [r EXCEPT !.stored = NullJSON, !.now = 0, !.alerts = <<>>, !.writes = <<>>,
            !.needsKVWrite = FALSE, !.newKVData = StateRec(Null, 0, 0),
            !.notifyResult = [threw |-> FALSE, success |-> TRUE]]

\* The handler leaves the loop body by an exception: the .catch callback
\* of the promise chain runs next.
Throw(r, what) ==
  [r EXCEPT !.failed = what,
            !.failedAt = IF r.idx \in 1..Len(DeviceList)
                         THEN DeviceList[r.idx] ELSE "none",
            !.pc = "catch"]

\* Time passes between two invocations (an invocation of SpecErr is short
\* against the granularity of the clock).
TickE ==
  /\ Running = {}
  /\ Tick

\* scheduled is invoked (no other invocation running) and loads its
\* configuration: on a missing setting it logs and returns.
InvokeE(c) ==
  /\ \A o \in Cycles : run[o].pc = "idle"
  /\ \E env \in EnvChoices :
       run' = [run EXCEPT ![c] =
                 IF LoadAppConfigThrows(env)
                 THEN [IdleRunE EXCEPT !.env = env, !.failed = "config",
                                       !.pc = "ended"]
                 ELSE [IdleRunE EXCEPT !.env = env, !.pc = "fetch"]]
  /\ UNCHANGED <<envReminder, clock, kv, lastOffAlert>>

\* getTailscaleNodeDetails resolves with the devices, their verdicts and
\* their tags.
FetchOkE(c) ==
  /\ run[c].pc = "fetch"
  /\ \E obs \in [Devices -> BOOLEAN], tags \in DeviceTagAssignments :
       run' = [run EXCEPT ![c].fetched = TRUE, ![c].obs = obs,
                          ![c].tags = tags, ![c].idx = 1, ![c].pc = "loop"]
  /\ UNCHANGED <<envReminder, clock, kv, lastOffAlert>>

\* getTailscaleNodeDetails rejects: the token request, the devices request
\* or a non-2xx answer.
FetchFailE(c) ==
  /\ run[c].pc = "fetch"
  /\ run' = [run EXCEPT ![c] = Throw([run[c] EXCEPT !.fetched = TRUE], "fetch")]
  /\ UNCHANGED <<envReminder, clock, kv, lastOffAlert>>

\* The head of the for loop: the tag filter lets the device through,
\* `continue`s, or the list is exhausted.
LoopE(c) ==
  /\ run[c].pc = "loop"
  /\ LET r == run[c]
     IN  run' = [run EXCEPT ![c] =
           IF r.idx > Len(DeviceList) THEN [r EXCEPT !.pc = "ended"]
           ELSE IF PassesFilter(r.tags[DeviceList[r.idx]],
                                AppConfig(r.env).monitorTags)
                THEN [r EXCEPT !.pc = "get"]
                ELSE [r EXCEPT !.skipped = @ \cup {DeviceList[r.idx]},
                               !.idx = @ + 1]]
  /\ UNCHANGED <<envReminder, clock, kv, lastOffAlert>>

\* await config.nodeStatusKV.get(kvKey) resolves.
GetOkE(c) ==
  /\ run[c].pc = "get"
  /\ run' = [run EXCEPT ![c].stored = kv[Node(c)],
                        ![c].gets = Append(@, Node(c)),
                        ![c].pc = "decide"]
  /\ UNCHANGED <<envReminder, clock, kv, lastOffAlert>>

\* await config.nodeStatusKV.get(kvKey) rejects.
GetFailE(c) ==
  /\ run[c].pc = "get"
  /\ run' = [run EXCEPT ![c] =
               Throw([run[c] EXCEPT !.gets = Append(@, Node(c))], "get")]
  /\ UNCHANGED <<envReminder, clock, kv, lastOffAlert>>

\* Variant: the notification is left for after the put.
AlertsAttempted_AfterPut(r) == <<>>

\* The alerts whose sendTelegramNotification call is made by the time the
\* decision is taken, i.e. before the put is awaited.
AlertsAttempted(r) == IF r.alert = "none" THEN <<>> ELSE <<r.alert>>

\* The synchronous part after the get: JSON.parse may throw; otherwise as
\* Decide, with the device notification logged.
DecideE(c) ==
  /\ run[c].pc = "decide"
  /\ LET d  == Node(c)
         rc == run[c]
         r  == Reconcile(PreviousStateData(rc.stored), rc.obs[d], clock,
                         AppConfig(rc.env).reminderIntervalMinutes)
         a  == AlertsAttempted(r)
     IN  run' = [run EXCEPT ![c] =
           IF JSONParseThrows(rc.stored) THEN Throw(rc, "parse")
           ELSE [rc EXCEPT
                   !.now = clock,
                   !.alerts = a,
                   !.devAlerts = @ \o [i \in 1..Len(a) |-> <<d, a[i]>>],
                   !.needsKVWrite = r.needsKVWrite,
                   !.newKVData = r.newKVData,
                   !.reconciled = IF r.needsKVWrite THEN @ ELSE @ \cup {d},
                   !.pc = IF r.needsKVWrite THEN "put" ELSE "next"]]
  /\ UNCHANGED <<envReminder, clock, kv, lastOffAlert>>

\* The notification call (if one was made) settles with some outcome; its
\* value is dropped.  Then await config.nodeStatusKV.put(...) resolves.
PutOkE(c) ==
  /\ run[c].pc = "put"
  /\ \E net \in IF run[c].alerts = <<>> THEN {"ok"} ELSE NetOutcomes :
       LET rc  == run[c]
           res == SendTelegramNotification(AppConfig(rc.env).telegramBotToken,
                                           AppConfig(rc.env).telegramChatId, net)
       IN  IF res.threw
           THEN /\ run' = [run EXCEPT ![c] =
                             Throw([rc EXCEPT !.notifyResult = res], "notify")]
                /\ kv' = kv
           ELSE /\ kv' = [kv EXCEPT ![Node(c)] = JSONStringify(rc.newKVData)]
                /\ run' = [run EXCEPT ![c] =
                             [rc EXCEPT !.notifyResult = res,
                                        !.writes = <<rc.newKVData>>,
                                        !.puts = Append(@, Node(c)),
                                        !.reconciled = @ \cup {Node(c)},
                                        !.pc = "next"]]
  /\ UNCHANGED <<envReminder, clock, lastOffAlert>>

\* The store after a put that rejected: nothing was written.
KVAfterFailedPut(store, key, value) == store

\* As PutOkE, but await config.nodeStatusKV.put(...) rejects.
PutFailE(c) ==
  /\ run[c].pc = "put"
  /\ \E net \in IF run[c].alerts = <<>> THEN {"ok"} ELSE NetOutcomes :
       LET rc  == run[c]
           res == SendTelegramNotification(AppConfig(rc.env).telegramBotToken,
                                           AppConfig(rc.env).telegramChatId, net)
       IN  /\ run' = [run EXCEPT ![c] =
                        Throw([rc EXCEPT !.notifyResult = res,
                                         !.puts = Append(@, Node(c))],
                              IF res.threw THEN "notify" ELSE "put")]
           /\ kv' = KVAfterFailedPut(kv, Node(c), JSONStringify(rc.newKVData))
  /\ UNCHANGED <<envReminder, clock, lastOffAlert>>

\* The for loop goes to its next iteration.
NextNodeE(c) ==
  /\ run[c].pc = "next"
  /\ run' = [run EXCEPT ![c] =
               [BodyReset(run[c]) EXCEPT !.idx = @ + 1, !.pc = "loop"]]
  /\ UNCHANGED <<envReminder, clock, kv, lastOffAlert>>

\* Variant: the .catch callback only logs.
CatchE_LogOnly(c) ==
  /\ run[c].pc = "catch"
  /\ run' = [run EXCEPT ![c].pc = "ended"]
  /\ UNCHANGED <<envReminder, clock, kv, lastOffAlert>>

\* The .catch callback: one "Worker Error" notification, then the promise
\* handed to ctx.waitUntil settles.
CatchE(c) ==
  /\ run[c].pc = "catch"
  /\ run' = [run EXCEPT ![c].errAlerts = @ + 1, ![c].pc = "ended"]
  /\ UNCHANGED <<envReminder, clock, kv, lastOffAlert>>

\* The invocation is over.
EndE(c) ==
  /\ run[c].pc = "ended"
  /\ run' = [run EXCEPT ![c] = IdleRunE]
  /\ UNCHANGED <<envReminder, clock, kv, lastOffAlert>>

NextErr ==
  \/ TickE
  \/ \E c \in ErrCycles : InvokeE(c)
  \/ \E c \in ErrCycles : FetchOkE(c)
  \/ \E c \in ErrCycles : FetchFailE(c)
  \/ \E c \in ErrCycles : LoopE(c)
  \/ \E c \in ErrCycles : GetOkE(c)
  \/ \E c \in ErrCycles : GetFailE(c)
  \/ \E c \in ErrCycles : DecideE(c)
  \/ \E c \in ErrCycles : PutOkE(c)
  \/ \E c \in ErrCycles : PutFailE(c)
  \/ \E c \in ErrCycles : NextNodeE(c)
  \/ \E c \in ErrCycles : CatchE(c)
  \/ \E c \in ErrCycles : EndE(c)

\* Non-overlapping invocations in which the liveness fetch, the store and
\* the notifier may fail and a stored value may be unparsable.
SpecErr == InitErr /\ [][NextErr]_vars

TypeOKErr ==
  /\ \A d \in Devices : kv[d] \in {NullJSON, Corrupt} \/ Len(kv[d]) = 3
  /\ \A c \in Cycles :
       run[c].pc \in {"idle", "fetch", "loop", "get", "decide", "put", "next",
                      "catch", "ended"}

\* ------------------------------------------------------------------------
\* Vocabulary of the properties of SpecErr
\* ------------------------------------------------------------------------

\* The invocation in slot c has settled.
Ended(c) == run[c].pc = "ended"

Range(f) == {f[i] : i \in DOMAIN f}

\* The devices for which slot c has read or written the store or attempted
\* a device notification.
Touched(c) ==
  Range(run[c].gets) \cup Range(run[c].puts)
    \cup {run[c].devAlerts[i][1] : i \in 1..Len(run[c].devAlerts)}

\* Device d, as fetched by slot c, carries a tag of the configured set.
HasConfiguredTag(c, d) ==
  Range(run[c].tags[d]) \cap Range(AppConfig(run[c].env).monitorTags) # {}

\* The devices the tag filter of slot c lets through.
Monitored(c) ==
  IF AppConfig(run[c].env).monitorTags = <<>> THEN Devices
  ELSE {d \in Devices : HasConfiguredTag(c, d)}

\* C11: a store read failure, an unparsable stored record or a store write
\* failure at one device leaves every other monitored device of the cycle
\* reconciled.
C11_ErrorConfined ==
  \A c \in Cycles :
    (Ended(c) /\ run[c].failed \in {"get", "parse", "put"})
      => \A d \in Monitored(c) \ {run[c].failedAt} : d \in run[c].reconciled

\* C12: a device whose stored record cannot be read or parsed is handled
\* as a device without prior record: online -> put {ONLINE,0,0} and no
\* notification; offline -> initial-down alert and put {OFFLINE,now,now}.
C12_ReadErrorAsFirstSighting ==
  \A c \in Cycles :
    (Ended(c) /\ run[c].failed \in {"get", "parse"})
      => /\ run[c].failedAt \in run[c].reconciled
         /\ run[c].errAlerts = 0
         /\ \E i \in 1..Len(run[c].puts) : run[c].puts[i] = run[c].failedAt
         /\ run[c].obs[run[c].failedAt]
              => \A i \in 1..Len(run[c].devAlerts) :
                   run[c].devAlerts[i][1] # run[c].failedAt
         /\ ~run[c].obs[run[c].failedAt]
              => \E i \in 1..Len(run[c].devAlerts) :
                   run[c].devAlerts[i] = <<run[c].failedAt, "down">>

\* C13: sendTelegramNotification never throws (credentials missing, API
\* error, network error), and whatever it returned the handler goes on to
\* put the computed record.
C13_NotifyFailureStillWrites ==
  \A c \in Cycles :
    /\ \A tok \in {<<>>, <<"t">>}, chat \in {<<>>, <<"1">>}, net \in NetOutcomes :
         ~SendTelegramNotification(tok, chat, net).threw
    /\ ~run[c].notifyResult.threw
    /\ run[c].failed # "notify"
    /\ (run[c].alerts # <<>> /\ run[c].pc \in {"next", "catch", "ended"})
         => /\ run[c].puts # <<>>
            /\ run[c].puts[Len(run[c].puts)] = Node(c)
    /\ (run[c].alerts # <<>> /\ run[c].pc = "next")
         => /\ run[c].writes = <<run[c].newKVData>>
            /\ kv[Node(c)] = <<run[c].newKVData.state, run[c].newKVData.alertTs,
                               run[c].newKVData.firstDownTs>>

\* An initial-down alert was not delivered and the record is stored.
C13_Witness ==
  \E c \in Cycles :
    /\ run[c].pc = "next" /\ run[c].alerts = <<"down">>
    /\ ~run[c].notifyResult.success
    /\ kv[Node(c)] = <<"OFFLINE", run[c].now, run[c].now>>

\* C14: the notification of a transition is attempted before the put, so a
\* put that fails does not prevent it; the failed put leaves the stored
\* value as it was read, and deciding again from the store gives the
\* decision that was lost.
C14_WriteFailureAfterNotify ==
  \A c \in Cycles :
    LET d == Node(c)
        r == Reconcile(PreviousStateData(run[c].stored), run[c].obs[d],
                       run[c].now, AppConfig(run[c].env).reminderIntervalMinutes)
    IN  /\ run[c].pc = "put"
             => /\ run[c].alerts = IF r.alert = "none" THEN <<>> ELSE <<r.alert>>
                /\ \A i \in 1..Len(run[c].puts) : run[c].puts[i] # d
        /\ run[c].failed = "put"
             => /\ run[c].alerts = IF r.alert = "none" THEN <<>> ELSE <<r.alert>>
                /\ run[c].writes = <<>>
                /\ kv[d] = run[c].stored
                /\ Reconcile(PreviousStateData(kv[d]), run[c].obs[d], run[c].now,
                             AppConfig(run[c].env).reminderIntervalMinutes)
                     = Decision(r.alert, run[c].needsKVWrite, run[c].newKVData)

\* The put of an initial-down record failed after the alert was attempted.
C14_Witness ==
  \E c \in Cycles :
    /\ Ended(c) /\ run[c].failed = "put"
    /\ run[c].alerts = <<"down">>
    /\ run[c].devAlerts # <<>>
    /\ kv[Node(c)] = NullJSON

\* C15: when the device list cannot be obtained the cycle attempts exactly
\* one aggregate error notification and no store read, store write or
\* device notification.
C15_FetchFailure ==
  \A c \in Cycles :
    run[c].failed = "fetch"
      => /\ run[c].gets = <<>> /\ run[c].puts = <<>> /\ run[c].devAlerts = <<>>
         /\ run[c].reconciled = {}
         /\ run[c].errAlerts = IF Ended(c) THEN 1 ELSE 0

C15_Witness ==
  \E c \in Cycles :
    Ended(c) /\ run[c].failed = "fetch" /\ run[c].errAlerts = 1

\* C16: with a required setting missing the invocation returns early: no
\* liveness fetch, no store read or write, no notification.
C16_ConfigError ==
  \A c \in Cycles :
    (run[c].pc # "idle"
       /\ \E k \in {"TELEGRAM_BOT_TOKEN", "TELEGRAM_CHAT_ID",
                    "REMINDER_INTERVAL_MINUTES", "MONITOR_TAGS"} :
            run[c].env[k] = <<>>)
      => /\ Ended(c) /\ run[c].failed = "config"
         /\ ~run[c].fetched
         /\ run[c].gets = <<>> /\ run[c].puts = <<>>
         /\ run[c].devAlerts = <<>> /\ run[c].errAlerts = 0

C16_Witness ==
  \E c \in Cycles :
    /\ Ended(c) /\ run[c].failed = "config"
    /\ run[c].env.TELEGRAM_BOT_TOKEN = <<>>
    /\ ~run[c].fetched

\* C17: with a non-empty configured tag set a device is reconciled iff one
\* of its tags is configured; a device without such a tag causes no store
\* read, no store write and no notification.
C17_TagFilter ==
  \A c \in Cycles :
    AppConfig(run[c].env).monitorTags # <<>>
      => /\ \A d \in Touched(c) \cup run[c].reconciled : HasConfiguredTag(c, d)
         /\ \A d \in run[c].skipped : ~HasConfiguredTag(c, d)
         /\ (Ended(c) /\ run[c].failed = "none")
              => /\ run[c].reconciled = {d \in Devices : HasConfiguredTag(c, d)}
                 /\ run[c].skipped = Devices \ run[c].reconciled

\* Filter ["a","c"]: the device tagged b and c was reconciled, the untagged
\* device was skipped.
C17_Witness ==
  \E c \in Cycles :
    /\ Ended(c) /\ run[c].failed = "none"
    /\ AppConfig(run[c].env).monitorTags = << <<"a">>, <<"c">> >>
    /\ \E d \in run[c].reconciled : run[c].tags[d] = << <<"b">>, <<"c">> >>
    /\ \E d \in run[c].skipped : run[c].tags[d] = <<>>

\* C18: with MONITOR_TAGS empty a cycle whose fetch and store operations
\* succeed reconciles every device of the list.
C18_EmptyFilterReconcilesAll ==
  \A c \in Cycles :
    (/\ Ended(c)
     /\ run[c].env.MONITOR_TAGS = <<>>
     /\ run[c].env.TELEGRAM_BOT_TOKEN # <<>>
     /\ run[c].failed \notin {"fetch", "get", "parse", "put"})
      => run[c].reconciled = Devices

\* ------------------------------------------------------------------------
\* Two overlapping cycles on one device (Spec)
\* ------------------------------------------------------------------------

\* Slots c1 and c2 have both decided for device d from the same stored
\* value and the same verdict.
SameReadSameVerdict(c1, c2, d) ==
  /\ c1 # c2
  /\ run[c1].pc \in {"put", "next"} /\ run[c2].pc \in {"put", "next"}
  /\ Node(c1) = d /\ Node(c2) = d
  /\ run[c1].stored = run[c2].stored
  /\ run[c1].obs[d] = run[c2].obs[d]

\* C19: two cycles that overlap on a device, having read the same prior
\* record and seen the same verdict, attempt together at most two
\* notifications for it, both of the same kind.
C19_AtMostOneExtraAlert ==
  \A c1, c2 \in Cycles : \A d \in Devices :
    SameReadSameVerdict(c1, c2, d)
      => /\ Len(run[c1].alerts) + Len(run[c2].alerts) <= 2
         /\ \A i \in 1..Len(run[c1].alerts), j \in 1..Len(run[c2].alerts) :
              run[c1].alerts[i] = run[c2].alerts[j]

\* Both cycles have attempted the initial-down alert of the same
\* transition.
C19_Witness ==
  \E c1, c2 \in Cycles : \E d \in Devices :
    /\ SameReadSameVerdict(c1, c2, d)
    /\ run[c1].alerts = <<"down">> /\ run[c2].alerts = <<"down">>
    /\ run[c1].stored # NullJSON

\* C20 as stated: the two cycles compute the same target record.
C20_SameTargetRecord ==
  \A c1, c2 \in Cycles : \A d \in Devices :
    SameReadSameVerdict(c1, c2, d) => run[c1].newKVData = run[c2].newKVData

\* C20 as amended: the two cycles compute target records with the same
\* state, equal outright when that state is ONLINE and with the same
\* firstDownTs when the prior state was OFFLINE; once both have written,
\* the stored record is one of the two and has that state whichever put
\* landed last.
C20_SameTargetState ==
  \A c1, c2 \in Cycles : \A d \in Devices :
    SameReadSameVerdict(c1, c2, d)
      => /\ run[c1].newKVData.state = run[c2].newKVData.state
         /\ run[c1].newKVData.state = "ONLINE"
              => run[c1].newKVData = run[c2].newKVData
         /\ (run[c1].stored # NullJSON /\ run[c1].stored[1] = "OFFLINE")
              => run[c1].newKVData.firstDownTs = run[c2].newKVData.firstDownTs
         /\ (run[c1].writes # <<>> /\ run[c2].writes # <<>>)
              => /\ kv[d] \in {<<w.state, w.alertTs, w.firstDownTs>> :
                                 w \in {run[c1].writes[1], run[c2].writes[1]}}
                 /\ kv[d][1] = run[c1].newKVData.state

\* Both cycles have written, with different records of the same state.
C20_Witness ==
  \E c1, c2 \in Cycles : \E d \in Devices :
    /\ SameReadSameVerdict(c1, c2, d)
    /\ run[c1].writes # <<>> /\ run[c2].writes # <<>>
    /\ run[c1].writes[1] # run[c2].writes[1]
    /\ run[c1].writes[1].state = "OFFLINE"
    /\ kv[d] = <<"OFFLINE", run[c1].now, run[c1].now>>
    /\ run[c1].now < run[c2].now

\* ========================================================================
\* Cycles that are cut short: truncation by the host, a rejected put, a
\* rejected liveness fetch (SpecHeal)
\* ========================================================================

\* The host ends the invocation of slot c at a suspension point, before the
\* loop is through: nothing of what remained is done.
TruncateH(c) ==
  /\ \/ run[c].pc \in {"get", "decide", "put"}
     \/ run[c].pc = "next" /\ run[c].idx < Len(DeviceList)
  /\ run' = [run EXCEPT ![c] = IdleRun]
  /\ UNCHANGED <<envReminder, clock, kv, lastOffAlert>>

\* await config.nodeStatusKV.put(...) rejects: the store keeps its value
\* and the exception goes to the .catch callback of the chain.
KVPutFailH(c) ==
  /\ run[c].pc = "put"
  /\ run' = [run EXCEPT ![c].pc = "catch"]
  /\ UNCHANGED <<envReminder, clock, kv, lastOffAlert>>

\* The trigger fires and getTailscaleNodeDetails rejects.
FetchFailH(c) ==
  /\ \A o \in Cycles : run[o].pc = "idle"
  /\ run' = [run EXCEPT ![c] = [IdleRun EXCEPT !.pc = "catch"]]
  /\ UNCHANGED <<envReminder, clock, kv, lastOffAlert>>

\* The .catch callback has sent its "Worker Error" notification; the
\* invocation is over.
CatchH(c) ==
  /\ run[c].pc = "catch"
  /\ run' = [run EXCEPT ![c] = IdleRun]
  /\ UNCHANGED <<envReminder, clock, kv, lastOffAlert>>

NextHeal ==
  \/ Tick
  \/ \E c \in Cycles : StartCycleSeq(c)
  \/ \E c \in Cycles : KVGet(c)
  \/ \E c \in Cycles : Decide(c)
  \/ \E c \in Cycles : KVPut(c)
  \/ \E c \in Cycles : NextNode(c)
  \/ \E c \in Cycles : TruncateH(c)
  \/ \E c \in Cycles : KVPutFailH(c)
  \/ \E c \in Cycles : FetchFailH(c)
  \/ \E c \in Cycles : CatchH(c)

\* The cron trigger keeps firing and every awaited operation settles; no
\* fairness is asked of the failures.
FairHeal ==
  /\ WF_vars(\E c \in Cycles : StartCycleSeq(c))
  /\ \A c \in Cycles :
       /\ WF_vars(KVGet(c))
       /\ WF_vars(Decide(c))
       /\ WF_vars(KVPut(c))
       /\ WF_vars(NextNode(c))
       /\ WF_vars(CatchH(c))

SpecHeal == Init /\ [][NextHeal]_vars /\ FairHeal

\* A step in which a cycle is truncated, loses a put or fails to fetch.
FailureStep ==
  \E c \in Cycles : TruncateH(c) \/ KVPutFailH(c) \/ FetchFailH(c)

\* C21: if from some point on every cycle observes verdict v for device d
\* and no cycle is truncated or fails in its fetch or its put any more, then
\* from some point on the record stored for d has the state of v.
C21_SelfHealing ==
  \A d \in Devices : \A v \in BOOLEAN :
    (/\ <>[](\A c \in Cycles : run[c].pc # "idle" => run[c].obs[d] = v)
     /\ <>[][~FailureStep]_vars)
      => <>[](/\ kv[d] # NullJSON
              /\ kv[d][1] = IF v THEN "ONLINE" ELSE "OFFLINE")

\* An earlier cycle attempted the initial-down alert of a device but its
\* record never reached the store; a later cycle, seeing the device
\* online, has stored {ONLINE,0,0}.
C21_Witness ==
  \E c \in Cycles :
    /\ run[c].pc = "next" /\ run[c].stored = NullJSON
    /\ lastOffAlert[Node(c)] # 0
    /\ run[c].obs[Node(c)]
    /\ kv[Node(c)] = <<"ONLINE", 0, 0>>

\* ========================================================================
\* tailscaleService.js: the liveness classifier inside
\* getTailscaleNodeDetails, and the cycle that uses its verdicts (SpecSrc)
\* ========================================================================

\* Values of env.DOWN_THRESHOLD_MINUTES.
EnvDownThresholdChoices == { <<"0">>, <<"1">>, <<"2">>, <<"x">> }

\* config.downThresholdMinutes = parseInt(env.DOWN_THRESHOLD_MINUTES, 10)
DownThresholdMinutes(str) == ParseInt10(str)

\* device.lastSeen as the API sends it: an ISO-8601 text, modelled by the
\* instant it denotes, or a text that is not a date.
IsoText(ms) == <<"iso", ms>>

MalformedText == <<"not-a-date">>

\* How long before the fetch the devices were last seen (milliseconds; a
\* negative value is a last-seen instant ahead of the worker's clock).
ElapsedChoices == {0 - 30000, 30000, 60000, 80000, 90000}

LastSeenChoices(now) == {IsoText(now - e) : e \in ElapsedChoices} \cup {MalformedText}

\* new Date(device.lastSeen).getTime(): NaN for an Invalid Date.
DateGetTime(text) ==
  IF Len(text) = 2 /\ text[1] = "iso" THEN Num(text[2]) ELSE NaN

\* Variant: an Invalid Date is logged as text instead of throwing.
ToISOStringThrows_Never(time) == FALSE

\* lastSeenDate.toISOString() (line 95) throws a RangeError on an Invalid
\* Date.
ToISOStringThrows(time) == time.isNaN

\* now.getTime() - lastSeenDate.getTime(), in milliseconds.
ElapsedMs(now, time) == IF time.isNaN THEN NaN ELSE Num(now - time.n)

\* Math.round(ms / (1000 * 60)): the nearest integer, a tie going up.
MathRoundMinutes(elapsed) ==
  IF elapsed.isNaN THEN NaN
  ELSE Num((2 * elapsed.n + MsPerMinute) \div (2 * MsPerMinute))

\* Variant: the rounded minutes are compared with the threshold.
IsOnline_Rounded(elapsed, downThresholdMinutes) ==
  /\ ~elapsed.isNaN /\ ~downThresholdMinutes.isNaN
  /\ (2 * elapsed.n + MsPerMinute) \div (2 * MsPerMinute)
       <= downThresholdMinutes.n

\* isOnline = minutesSinceLastSeen <= downThresholdMinutes, on the
\* unrounded quotient (a comparison with NaN is false).
IsOnline(elapsed, downThresholdMinutes) ==
  /\ ~elapsed.isNaN /\ ~downThresholdMinutes.isNaN
  /\ elapsed.n <= downThresholdMinutes.n * MsPerMinute

\* One element of devicesDetails.
DeviceDetails(id, isOnline, minutesSinceLastSeen) ==
  [id |-> id, isOnline |-> isOnline,
   minutesSinceLastSeen |-> minutesSinceLastSeen]

\* An idle slot of SpecSrc.
IdleRunS ==
  [pc |-> "idle", thr |-> <<>>, api |-> [d \in Devices |-> MalformedText],
   fetchNow |-> 0, idx |-> 0, details |-> <<>>,
   devAlerts |-> <<>>,     \* <<device, kind>> of each device notification
   errAlerts |-> 0,        \* number of "Worker Error" notifications
   reconciled |-> <<>>,    \* <<device, verdict>> of each loop body run
   failed |-> "none"]

InitSrc ==
  /\ envReminder \in EnvReminderChoices
  /\ clock = TickMs
  /\ kv = [d \in Devices |-> NullJSON]
  /\ run = [c \in Cycles |-> IdleRunS]
  /\ lastOffAlert = [d \in Devices |-> 0]

\* scheduled is invoked, the configuration loads, the token and the
\* devices request succeed; `now = new Date()` is taken.
InvokeS(c) ==
  /\ \A o \in Cycles : run[o].pc = "idle"
  /\ \E thr \in EnvDownThresholdChoices, api \in [Devices -> LastSeenChoices(clock)] :
       run' = [run EXCEPT ![c] =
                 [IdleRunS EXCEPT !.pc = "classify", !.thr = thr, !.api = api,
                                  !.fetchNow = clock, !.idx = 1]]
  /\ UNCHANGED <<envReminder, clock, kv, lastOffAlert>>

\* One iteration of `for (const device of devices)` (lines 83-120): the
\* verdict is computed, the log line with toISOString runs (and may
\* throw, which rejects getTailscaleNodeDetails), the details are pushed.
ClassifyS(c) ==
  /\ run[c].pc = "classify"
  /\ LET rc      == run[c]
         d       == DeviceList[rc.idx]
         time    == DateGetTime(rc.api[d])
         elapsed == ElapsedMs(rc.fetchNow, time)
         online  == IsOnline(elapsed, DownThresholdMinutes(rc.thr))
     IN  run' = [run EXCEPT ![c] =
           IF ToISOStringThrows(time)
           THEN [rc EXCEPT !.failed = "fetch", !.pc = "catch"]
           ELSE [rc EXCEPT
                   !.details = Append(@, DeviceDetails(d, online,
                                                       MathRoundMinutes(elapsed))),
                   !.idx = IF rc.idx < Len(DeviceList) THEN rc.idx + 1 ELSE 1,
                   !.pc = IF rc.idx < Len(DeviceList) THEN "classify"
                          ELSE "loop"]]
  /\ UNCHANGED <<envReminder, clock, kv, lastOffAlert>>

\* The body of the loop of scheduled for one element of
\* statusResult.devices: get, decision on node.isOnline, notification, put.
ReconcileS(c) ==
  /\ run[c].pc = "loop"
  /\ LET rc   == run[c]
         node == rc.details[rc.idx]
         r    == Reconcile(PreviousStateData(kv[node.id]), node.isOnline, clock,
                           config.reminderIntervalMinutes)
     IN  IF rc.idx > Len(rc.details)
         THEN /\ run' = [run EXCEPT ![c].pc = "ended"]
              /\ kv' = kv
         ELSE /\ run' = [run EXCEPT
                           ![c].devAlerts =
                              IF r.alert = "none" THEN @
                              ELSE Append(@, <<node.id, r.alert>>),
                           ![c].reconciled = Append(@, <<node.id, node.isOnline>>),
                           ![c].idx = @ + 1]
              /\ kv' = IF r.needsKVWrite
                       THEN [kv EXCEPT ![node.id] = JSONStringify(r.newKVData)]
                       ELSE kv
  /\ UNCHANGED <<envReminder, clock, lastOffAlert>>

\* The .catch callback: one "Worker Error" notification.
CatchS(c) ==
  /\ run[c].pc = "catch"
  /\ run' = [run EXCEPT ![c].errAlerts = @ + 1, ![c].pc = "ended"]
  /\ UNCHANGED <<envReminder, clock, kv, lastOffAlert>>

EndS(c) ==
  /\ run[c].pc = "ended"
  /\ run' = [run EXCEPT ![c] = IdleRunS]
  /\ UNCHANGED <<envReminder, clock, kv, lastOffAlert>>

NextSrc ==
  \/ TickE
  \/ \E c \in ErrCycles : InvokeS(c)
  \/ \E c \in ErrCycles : ClassifyS(c)
  \/ \E c \in ErrCycles : ReconcileS(c)
  \/ \E c \in ErrCycles : CatchS(c)
  \/ \E c \in ErrCycles : EndS(c)

\* Cycles whose verdicts come out of the classifier.
SpecSrc == InitSrc /\ [][NextSrc]_vars

\* The milliseconds between the last contact of the device of details
\* element i of slot c and the `now` of the fetch.
ElapsedOf(c, i) == run[c].fetchNow - run[c].api[run[c].details[i].id][2]

\* C22: a device is classified online iff the unrounded time since its
\* last contact is at most the threshold (equality is online; with a
\* threshold that is not a number nothing is online); the reported
\* minutesSinceLastSeen is the nearest integer to the unrounded minutes and
\* plays no part in the verdict.
C22_Classifier ==
  \A c \in Cycles : \A i \in 1..Len(run[c].details) :
    LET e == ElapsedOf(c, i)
        T == ParseInt10(run[c].thr)
        m == run[c].details[i].minutesSinceLastSeen
    IN  /\ run[c].details[i].isOnline <=> (~T.isNaN /\ e <= T.n * MsPerMinute)
        /\ ~m.isNaN
        /\ (2 * m.n - 1) * MsPerMinute <= 2 * e
        /\ 2 * e < (2 * m.n + 1) * MsPerMinute

\* Threshold 1: a device seen 80 s ago is reported as 1 minute and is
\* offline, a device seen exactly 60 s ago is online.
C22_Witness ==
  \E c \in Cycles : \E i, j \in 1..Len(run[c].details) :
    /\ ParseInt10(run[c].thr) = Num(1)
    /\ ElapsedOf(c, i) = 80000
    /\ run[c].details[i].minutesSinceLastSeen = Num(1)
    /\ ~run[c].details[i].isOnline
    /\ ElapsedOf(c, j) = MsPerMinute
    /\ run[c].details[j].isOnline

\* C23: when the answer of the liveness source holds a device whose
\* lastSeen is not a date, no device of the cycle is reconciled and no
\* verdict for that device exists; the cycle ends as a failed fetch with
\* one "Worker Error" notification.
C23_MalformedRejected ==
  \A c \in Cycles :
    (run[c].pc # "idle" /\ \E d \in Devices : run[c].api[d] = MalformedText)
      => /\ run[c].reconciled = <<>> /\ run[c].devAlerts = <<>>
         /\ \A i \in 1..Len(run[c].details) :
              run[c].api[run[c].details[i].id] # MalformedText
         /\ run[c].pc \in {"classify", "catch", "ended"}
         /\ run[c].pc = "ended"
              => run[c].failed = "fetch" /\ run[c].errAlerts = 1

\* The second device of the list has the malformed lastSeen; the first
\* was classified offline before the fetch was rejected.
C23_Witness ==
  \E c \in Cycles :
    /\ run[c].pc = "ended" /\ run[c].failed = "fetch" /\ run[c].errAlerts = 1
    /\ run[c].api[DeviceList[2]] = MalformedText
    /\ Len(run[c].details) = 1 /\ ~run[c].details[1].isOnline
    /\ run[c].reconciled = <<>>

\* ========================================================================
\* index.js `fetch`: the status query handler, next to cycles whose devices
\* may change their name (SpecQuery)
\* ========================================================================

\* s.split(sep): the pieces between the separators.
RECURSIVE SplitOn(_, _)
SplitOn(s, sep) ==
  IF \A i \in 1..Len(s) : s[i] # sep THEN <<s>>
  ELSE LET i == CHOOSE i \in 1..Len(s) :
                  s[i] = sep /\ \A j \in 1..(i - 1) : s[j] # sep
       IN  <<SubSeq(s, 1, i - 1)>> \o SplitOn(SubSeq(s, i + 1, Len(s)), sep)

\* node.name.split(".")[0]
ShortNodeName(name) == SplitOn(name, ".")[1]

\* `node:${nodeId}:${shortNodeName}`
KvKey(nodeId, shortNodeName) ==
  <<"n", "o", "d", "e", ":">> \o nodeId \o <<":">> \o shortNodeName

\* The ids of the devices of the tailnet, in the order of the API's list.
NodeIdList == << <<"1">>, <<"2">> >>

\* The names (node.name) a device is seen with at different times: the
\* first device is renamed from a.t to b, the second keeps its name.
NodeNameChoices(i) ==
  IF i = 1 THEN { <<"a", ".", "t">>, <<"b">> } ELSE { <<"c", ".", "t">> }

\* env.TOKEN_KV_KEY: the key of the cached OAuth token.  wrangler.toml
\* binds the token cache and the status store to one namespace, so the
\* key is part of what nodeStatusKV.list() returns.
TokenKVKey == <<"t", "o", "k">>

\* The keys of the namespace, in the lexicographic order of list().
KeysInOrder ==
  << KvKey(NodeIdList[1], <<"a">>), KvKey(NodeIdList[1], <<"b">>),
     KvKey(NodeIdList[2], <<"c">>), TokenKVKey >>

AllKeys == {KeysInOrder[i] : i \in 1..Len(KeysInOrder)}

StatusKeys == AllKeys \ {TokenKVKey}

\* The JSON text of a cached token {accessToken, expiresAt}.
TokenJSON == <<"tk", 1>>

\* listResult.keys of `await config.nodeStatusKV.list()`.
ListKeys(store) == SelectSeq(KeysInOrder, LAMBDA k : store[k] # NullJSON)

\* The null of the response's JSON.
JsonNull == <<>>

\* new Date(ms).toISOString() for an instant of January 1970: the fields
\* YYYY-MM-DDTHH:mm:ss.sssZ of the text.
ToISOString(ms) ==
  <<1970, 1, 1 + (ms \div 86400000), (ms \div 3600000) % 24,
    (ms \div 60000) % 60, (ms \div 1000) % 60, ms % 1000>>

\* Variant: every numeric timestamp is formatted as a date.
HumanReadableTs_AlwaysISO(ts) == ToISOString(ts)

\* humanReadableAlertTs / humanReadableFirstDownTs of a numeric timestamp
\* (the records reconciliation writes hold numbers only).
HumanReadableTs(ts) == IF ts = 0 THEN JsonNull ELSE ToISOString(ts)

\* The element pushed on kvStoredStatuses (lines 381-389).
StatusEntry(parts, storedValue) ==
  [nodeId |-> parts[2], shortName |-> parts[3],
   status |-> [state |-> storedValue.state,
               alertTs |-> HumanReadableTs(storedValue.alertTs),
               firstDownTs |-> HumanReadableTs(storedValue.firstDownTs)]]

\* Variant: an entry that cannot be shown empties the list.
PushStatus_BadEntryClears(kvStoredStatuses, key, storedValueJSON) ==
  IF storedValueJSON = NullJSON THEN kvStoredStatuses
  ELSE IF JSONParseThrows(storedValueJSON) THEN <<>>
  ELSE LET parts == SplitOn(key, ":")
       IN  IF Len(parts) = 3 /\ parts[1] = <<"n", "o", "d", "e">>
           THEN Append(kvStoredStatuses,
                       StatusEntry(parts, JSONParse(storedValueJSON)))
           ELSE <<>>

\* kvStoredStatuses after the loop body has run for `key` with the value
\* the get returned.
PushStatus(kvStoredStatuses, key, storedValueJSON) ==
  IF storedValueJSON = NullJSON THEN kvStoredStatuses
  ELSE IF JSONParseThrows(storedValueJSON) THEN kvStoredStatuses
  ELSE LET parts == SplitOn(key, ":")
       IN  IF Len(parts) = 3 /\ parts[1] = <<"n", "o", "d", "e">>
           THEN Append(kvStoredStatuses,
                       StatusEntry(parts, JSONParse(storedValueJSON)))
           ELSE kvStoredStatuses

\* Variant: the header is not compared.
Unauthorized_Never(apiAccessTokenWorker, header) == FALSE

\* config.apiAccessTokenWorker &&
\*   request.headers.get("X-Auth-Token") !== config.apiAccessTokenWorker
\* (an absent header makes get return null).
Unauthorized(apiAccessTokenWorker, header) ==
  /\ apiAccessTokenWorker # <<>>
  /\ ~(header.present /\ header.value = apiAccessTokenWorker)

\* The X-Auth-Token header of a request: absent, the secret, another text.
HeaderChoices ==
  { [present |-> FALSE, value |-> <<>>],
    [present |-> TRUE, value |-> <<"s">>],
    [present |-> TRUE, value |-> <<"x">>] }

MethodChoices == {"GET", "POST"}

\* The environments of a request: complete, without the access secret,
\* without another required setting.
EnvChoicesQ ==
  LET full == [API_ACCESS_TOKEN_WORKER |-> <<"s">>,
               TELEGRAM_BOT_TOKEN |-> <<"t">>, TELEGRAM_CHAT_ID |-> <<"1">>,
               REMINDER_INTERVAL_MINUTES |-> envReminder,
               MONITOR_TAGS |-> <<"a">>]
  IN  { full,
        [full EXCEPT !.API_ACCESS_TOKEN_WORKER = <<>>],
        [full EXCEPT !.TELEGRAM_CHAT_ID = <<>>] }

\* new Response(JSON.stringify({success, data | error}), {status})
Response(status, success, data) ==
  [status |-> status, success |-> success, data |-> data]

NoResponse == Response(0, FALSE, <<>>)

\* Variant: an entry that is not shown is removed from the store.
StoreAfterQueryGet_Prune(store, key) == [store EXCEPT ![key] = NullJSON]

\* The store after the loop body of the query handler has run for `key`:
\* the handler calls list and get only.
StoreAfterQueryGet(store, key) == store

\* The slot that serves status queries; the other one runs the cycles.
QueryCycles == Cycles \ ErrCycles

\* An idle slot of SpecQuery.
IdleRunQ ==
  [pc |-> "idle", kind |-> "none",
   devices |-> <<>>, idx |-> 0,
   method |-> "GET", header |-> [present |-> FALSE, value |-> <<>>],
   env |-> [k \in ALL_REQUIRED_KEYS |-> <<>>],
   listed |-> FALSE,       \* nodeStatusKV.list() was called
   keys |-> <<>>,          \* listResult.keys
   gets |-> <<>>,          \* the keys nodeStatusKV.get was called with
   kvStoredStatuses |-> <<>>,
   response |-> NoResponse]

InitQuery ==
  /\ envReminder = <<"1">>
  /\ clock = TickMs
  /\ kv \in {[k \in AllKeys |-> IF k = TokenKVKey THEN t ELSE NullJSON] :
               t \in {NullJSON, TokenJSON}}
  /\ run = [c \in Cycles |-> IdleRunQ]
  /\ lastOffAlert = [d \in Devices |-> 0]

\* scheduled is invoked and the liveness source answers: each device with
\* its current name and verdict.
CycleQ(c) ==
  /\ \A o \in Cycles : run[o].pc = "idle"
  /\ \E name \in NodeNameChoices(1), obs \in [1..Len(NodeIdList) -> BOOLEAN] :
       run' = [run EXCEPT ![c] =
                 [IdleRunQ EXCEPT
                    !.pc = "body", !.kind = "scheduled", !.idx = 1,
                    !.devices =
                       [i \in 1..Len(NodeIdList) |->
                          [id |-> NodeIdList[i],
                           name |-> IF i = 1 THEN name
                                    ELSE CHOOSE n \in NodeNameChoices(i) : TRUE,
                           isOnline |-> obs[i]]]]]
  /\ UNCHANGED <<envReminder, clock, kv, lastOffAlert>>

\* The loop body of scheduled for one device: key, get, decision,
\* notification, put; after the last device the invocation is over.
BodyQ(c) ==
  /\ run[c].pc = "body"
  /\ LET rc    == run[c]
         node  == rc.devices[rc.idx]
         kvKey == KvKey(node.id, ShortNodeName(node.name))
         r     == Reconcile(PreviousStateData(kv[kvKey]), node.isOnline, clock,
                            config.reminderIntervalMinutes)
     IN  IF rc.idx > Len(rc.devices)
         THEN /\ run' = [run EXCEPT ![c] = IdleRunQ]
              /\ kv' = kv
         ELSE /\ run' = [run EXCEPT ![c].idx = @ + 1]
              /\ kv' = IF r.needsKVWrite
                       THEN [kv EXCEPT ![kvKey] = JSONStringify(r.newKVData)]
                       ELSE kv
  /\ UNCHANGED <<envReminder, clock, lastOffAlert>>

\* fetch is invoked; the part before the first await: the method check,
\* loadAppConfig, the X-Auth-Token check.
RequestQ(c) ==
  /\ \A o \in Cycles : run[o].pc = "idle"
  /\ \E method \in MethodChoices, header \in HeaderChoices, env \in EnvChoicesQ :
       LET r == [IdleRunQ EXCEPT !.kind = "fetch", !.method = method,
                                 !.header = header, !.env = env]
       IN  run' = [run EXCEPT ![c] =
             IF method # "GET"
             THEN [r EXCEPT !.response = Response(405, FALSE, <<>>),
                            !.pc = "responded"]
             ELSE IF LoadAppConfigThrows(env)
             THEN [r EXCEPT !.response = Response(500, FALSE, <<>>),
                            !.pc = "responded"]
             ELSE IF Unauthorized(AppConfig(env).apiAccessTokenWorker, header)
             THEN [r EXCEPT !.response = Response(401, FALSE, <<>>),
                            !.pc = "responded"]
             ELSE [r EXCEPT !.pc = "list"]]
  /\ UNCHANGED <<envReminder, clock, kv, lastOffAlert>>

\* await config.nodeStatusKV.list() resolves.
ListQ(c) ==
  /\ run[c].pc = "list"
  /\ run' = [run EXCEPT ![c].listed = TRUE, ![c].keys = ListKeys(kv),
                        ![c].idx = 1, ![c].pc = "get"]
  /\ UNCHANGED <<envReminder, clock, kv, lastOffAlert>>

\* await config.nodeStatusKV.list() rejects: the outer catch answers 500.
ListFailQ(c) ==
  /\ run[c].pc = "list"
  /\ run' = [run EXCEPT ![c].listed = TRUE,
                        ![c].response = Response(500, FALSE, <<>>),
                        ![c].pc = "responded"]
  /\ UNCHANGED <<envReminder, clock, kv, lastOffAlert>>

\* One iteration of `for (const key of listResult.keys)` with a get that
\* resolves; after the last key the success response is returned.
GetQ(c) ==
  /\ run[c].pc = "get"
  /\ LET rc == run[c]
     IN  IF rc.idx > Len(rc.keys)
         THEN /\ run' = [run EXCEPT
                           ![c].response = Response(200, TRUE, rc.kvStoredStatuses),
                           ![c].pc = "responded"]
              /\ kv' = kv
         ELSE /\ run' = [run EXCEPT
                           ![c].gets = Append(@, rc.keys[rc.idx]),
                           ![c].kvStoredStatuses =
                              PushStatus(@, rc.keys[rc.idx], kv[rc.keys[rc.idx]]),
                           ![c].idx = @ + 1]
              /\ kv' = StoreAfterQueryGet(kv, rc.keys[rc.idx])
  /\ UNCHANGED <<envReminder, clock, lastOffAlert>>

\* await config.nodeStatusKV.get(key.name) rejects: the outer catch
\* answers 500.
GetFailQ(c) ==
  /\ run[c].pc = "get"
  /\ run[c].idx <= Len(run[c].keys)
  /\ run' = [run EXCEPT ![c].gets = Append(@, run[c].keys[run[c].idx]),
                        ![c].response = Response(500, FALSE, <<>>),
                        ![c].pc = "responded"]
  /\ UNCHANGED <<envReminder, clock, kv, lastOffAlert>>

\* The response has been sent.
EndQ(c) ==
  /\ run[c].pc = "responded"
  /\ run' = [run EXCEPT ![c] = IdleRunQ]
  /\ UNCHANGED <<envReminder, clock, kv, lastOffAlert>>

NextQuery ==
  \/ TickE
  \/ \E c \in ErrCycles : CycleQ(c)
  \/ \E c \in ErrCycles : BodyQ(c)
  \/ \E c \in QueryCycles : RequestQ(c)
  \/ \E c \in QueryCycles : ListQ(c)
  \/ \E c \in QueryCycles : ListFailQ(c)
  \/ \E c \in QueryCycles : GetQ(c)
  \/ \E c \in QueryCycles : GetFailQ(c)
  \/ \E c \in QueryCycles : EndQ(c)

\* Cycles and status queries, one invocation at a time.
SpecQuery == InitQuery /\ [][NextQuery]_vars

\* ------------------------------------------------------------------------
\* Vocabulary of the properties of SpecQuery
\* ------------------------------------------------------------------------

\* Slot c holds a GET request that has been answered.
AnsweredGet(c) ==
  run[c].kind = "fetch" /\ run[c].pc = "responded" /\ run[c].method = "GET"

\* Every required setting other than the access secret is present.
OtherSettingsPresent(env) ==
  \A k \in {"TELEGRAM_BOT_TOKEN", "TELEGRAM_CHAT_ID",
            "REMINDER_INTERVAL_MINUTES", "MONITOR_TAGS"} : env[k] # <<>>

\* The status keys that hold a record.
PersistedKeys == {k \in StatusKeys : kv[k] # NullJSON}

\* C24: a GET request to a configured worker whose X-Auth-Token header is
\* absent or differs from the secret is answered 401, and no list and no
\* get has been issued for it; nor has any been issued for a request that
\* is answered 405 or for one that fails on its configuration.
C24_AuthBeforeStore ==
  \A c \in Cycles :
    /\ (/\ run[c].kind = "fetch" /\ run[c].method = "GET"
        /\ OtherSettingsPresent(run[c].env)
        /\ run[c].env.API_ACCESS_TOKEN_WORKER # <<>>
        /\ ~(run[c].header.present
               /\ run[c].header.value = run[c].env.API_ACCESS_TOKEN_WORKER))
         => /\ run[c].pc = "responded"
            /\ run[c].response.status = 401 /\ ~run[c].response.success
            /\ ~run[c].listed /\ run[c].gets = <<>>
    /\ (run[c].kind = "fetch" /\ run[c].response.status \in {401, 405})
         => ~run[c].listed /\ run[c].gets = <<>>

\* A request with a wrong token is refused while the store holds records.
C24_Witness ==
  \E c \in Cycles :
    /\ AnsweredGet(c) /\ run[c].response.status = 401
    /\ run[c].header = [present |-> TRUE, value |-> <<"x">>]
    /\ ~run[c].listed
    /\ PersistedKeys # {}

\* C25: a GET request to a worker without API_ACCESS_TOKEN_WORKER (every
\* other setting present) is answered with the success response, whatever
\* its X-Auth-Token header.
C25_OpenAccess ==
  \A c \in Cycles :
    (/\ AnsweredGet(c)
     /\ run[c].env.API_ACCESS_TOKEN_WORKER = <<>>
     /\ OtherSettingsPresent(run[c].env)
     /\ run[c].listed => run[c].response.status # 500)
      => run[c].response.status = 200 /\ run[c].response.success

\* C26: the success response of a status query holds exactly one entry for
\* every status record in the store and no other entry; the entry has the
\* id and the short name of the key, the state of the record, and for each
\* timestamp null if it is 0 and its ISO-8601 text otherwise.
C26_QueryEntries ==
  \A c \in Cycles :
    (AnsweredGet(c) /\ run[c].response.status = 200)
      => LET data == run[c].response.data
         IN  /\ Len(data) = Cardinality(PersistedKeys)
             /\ \A i \in 1..Len(NodeIdList) :
                  \A name \in {ShortNodeName(n) : n \in NodeNameChoices(i)} :
                    LET k == KvKey(NodeIdList[i], name)
                        E == {j \in 1..Len(data) :
                                /\ data[j].nodeId = NodeIdList[i]
                                /\ data[j].shortName = name}
                    IN  IF kv[k] = NullJSON THEN E = {}
                        ELSE /\ Cardinality(E) = 1
                             /\ \A j \in E :
                                  /\ data[j].status.state = kv[k][1]
                                  /\ data[j].status.alertTs =
                                       IF kv[k][2] = 0 THEN JsonNull
                                       ELSE ToISOString(kv[k][2])
                                  /\ data[j].status.firstDownTs =
                                       IF kv[k][3] = 0 THEN JsonNull
                                       ELSE ToISOString(kv[k][3])

\* The answer shows an ONLINE record with two nulls and an OFFLINE record
\* with two different times, and the cached token of the same namespace
\* is not shown.
C26_Witness ==
  \E c \in Cycles :
    /\ AnsweredGet(c) /\ run[c].response.status = 200
    /\ kv[TokenKVKey] # NullJSON
    /\ Len(run[c].gets) = Len(run[c].response.data) + 1
    /\ \E i, j \in 1..Len(run[c].response.data) :
         /\ run[c].response.data[i].status =
              [state |-> "ONLINE", alertTs |-> JsonNull, firstDownTs |-> JsonNull]
         /\ run[c].response.data[j].status =
              [state |-> "OFFLINE",
               alertTs |-> <<1970, 1, 1, 0, 2, 0, 0>>,
               firstDownTs |-> <<1970, 1, 1, 0, 1, 0, 0>>]

\* C27: the store holds at most one status record per device id.
C27_OneRecordPerDevice ==
  \A i \in 1..Len(NodeIdList) :
    Cardinality({k \in PersistedKeys : SplitOn(k, ":")[2] = NodeIdList[i]}) <= 1

\* C28: no step removes a status record, a step that changes the store is
\* a step of a cycle, and a step of the query handler leaves the whole
\* store as it is.
C28_OnlyCyclesWrite ==
  [][/\ \A k \in StatusKeys : kv[k] # NullJSON => kv'[k] # NullJSON
     /\ kv' # kv
          => \E c \in Cycles : run[c].kind = "scheduled" /\ run'[c] # run[c]
     /\ (\E c \in Cycles :
           /\ run'[c] # run[c]
           /\ run[c].kind = "fetch" \/ run'[c].kind = "fetch")
          => kv' = kv]_vars

\* A query has read the two records of the store and has answered.
C28_Witness ==
  \E c \in Cycles :
    /\ AnsweredGet(c) /\ run[c].response.status = 200
    /\ Len(run[c].response.data) = 2
    /\ Cardinality(PersistedKeys) = 2

\* ========================================================================
\* tailscaleAuthService.js: getTailscaleAccessToken and its cache (SpecTok)
\*
\* In SpecTok the variable envReminder holds the one setting this function
\* depends on, env.TOKEN_EXPIRY_BUFFER_SECONDS, and kv is the token cache
\* namespace with its single key.
\* ========================================================================

\* The factor 1000 of `(expires_in - buffer) * 1000`.
MsPerSecond == 1000

MaxTokenClock == MaxTokenSeconds * MsPerSecond

\* Values of env.TOKEN_EXPIRY_BUFFER_SECONDS.
EnvBufferChoices == { <<"1">>, <<" ", "2">>, <<"3">>, <<"1", "s">> }

\* expires_in of the token answers of the OAuth endpoint (seconds).
ExpiresInChoices == {2, 3}

\* The number a string becomes in `expires_in - buffer` and `buffer / 2`:
\* white space around it is dropped, the empty text is 0, a text that is
\* not a decimal numeral as a whole is NaN.
ToNumber(str) ==
  LET t    == Trim(str)
      neg  == t # <<>> /\ Head(t) = "-"
      body == IF t # <<>> /\ Head(t) \in {"-", "+"} THEN Tail(t) ELSE t
  IN  IF t = <<>> THEN Num(0)
      ELSE IF body # <<>> /\ LeadingDigits(body) = body
      THEN Num(IF neg THEN 0 - DigitsValue(body, 0) ELSE DigitsValue(body, 0))
      ELSE NaN

\* config.tokenExpiryBufferSeconds as a number.
TokenExpiryBufferSeconds == ToNumber(envReminder)

\* An access token: the text is opaque to the worker; the model names it
\* by the instant the OAuth endpoint issued it and by its lifetime.
AccessToken(issuedAt, expires_in) == <<"token", issuedAt, expires_in>>

NoToken == <<>>

\* The instant from which the liveness source refuses the token.
RealExpiry(accessToken) == accessToken[2] + accessToken[3] * MsPerSecond

\* expiresAt = Date.now() + (expires_in - buffer) * 1000
ExpiresAt(now, expires_in, bufferSeconds) ==
  IF bufferSeconds.isNaN THEN NaN
  ELSE Num(now + (expires_in - bufferSeconds.n) * MsPerSecond)

\* JSON.stringify({accessToken, expiresAt}): a NaN becomes null.
TokenStringify(accessToken, expiresAt) ==
  <<accessToken, [isNull |-> expiresAt.isNaN, n |-> expiresAt.n]>>

\* JSON.parse of the cached text.
TokenParse(json) == [accessToken |-> json[1], expiresAt |-> json[2]]

\* What the namespace holds under the token key: the text and the instant
\* at which the store drops it (put time + expirationTtl).
CacheEntry(json, expiration) == [json |-> json, expiration |-> expiration]

NoCacheEntry == CacheEntry(NullJSON, 0)

\* expirationTtl = expires_in - buffer / 2 seconds, as an instant.
CacheExpiration(now, expires_in, bufferSeconds) ==
  now + expires_in * MsPerSecond - bufferSeconds.n * (MsPerSecond \div 2)

\* Variant: a cached token is used whatever its expiresAt.
CachedTokenValid_NoExpiry(cachedDataJson, now) ==
  /\ cachedDataJson # NullJSON
  /\ TokenParse(cachedDataJson).accessToken # NoToken

\* cachedDataJson && cachedData.accessToken && cachedData.expiresAt &&
\*   Date.now() < cachedData.expiresAt
CachedTokenValid(cachedDataJson, now) ==
  /\ cachedDataJson # NullJSON
  /\ TokenParse(cachedDataJson).accessToken # NoToken
  /\ ~TokenParse(cachedDataJson).expiresAt.isNull
  /\ TokenParse(cachedDataJson).expiresAt.n # 0
  /\ now < TokenParse(cachedDataJson).expiresAt.n

\* An idle slot of SpecTok.
IdleRunT ==
  [pc |-> "idle",
   cachedDataJson |-> NullJSON,   \* what the cache get returned
   newTokenData |-> [access_token |-> NoToken, expires_in |-> 0],
   expiresAt |-> NaN,             \* the expiresAt computed for the new token
   cachedAt |-> 0,                \* Date.now() of that computation
   putDone |-> FALSE,             \* the cache put resolved
   returned |-> NoToken,          \* the token the call returned
   returnedAt |-> 0,              \* Date.now() when it returned
   fromCache |-> FALSE,
   threw |-> FALSE]

InitTok ==
  /\ envReminder \in EnvBufferChoices
  /\ clock = MsPerSecond
  /\ kv = [k \in {TokenKVKey} |-> NoCacheEntry]
  /\ run = [c \in Cycles |-> IdleRunT]
  /\ lastOffAlert = [d \in Devices |-> 0]

\* A second passes.
TickT ==
  /\ clock + MsPerSecond <= MaxTokenClock
  /\ clock' = clock + MsPerSecond
  /\ UNCHANGED <<envReminder, kv, run, lastOffAlert>>

\* The store drops the cached text when its expirationTtl has passed.
ExpireT ==
  /\ kv[TokenKVKey] # NoCacheEntry
  /\ clock >= kv[TokenKVKey].expiration
  /\ kv' = [kv EXCEPT ![TokenKVKey] = NoCacheEntry]
  /\ UNCHANGED <<envReminder, clock, run, lastOffAlert>>

\* getTailscaleAccessToken is called.
CallT(c) ==
  /\ run[c].pc = "idle"
  /\ run' = [run EXCEPT ![c] = [IdleRunT EXCEPT !.pc = "cacheget"]]
  /\ UNCHANGED <<envReminder, clock, kv, lastOffAlert>>

\* await tokenCacheKV.get resolves: a valid cached token is returned,
\* otherwise a new one is requested.
CacheGetT(c) ==
  /\ run[c].pc = "cacheget"
  /\ LET json == kv[TokenKVKey].json
     IN  run' = [run EXCEPT ![c] =
           IF CachedTokenValid(json, clock)
           THEN [run[c] EXCEPT !.cachedDataJson = json,
                               !.returned = TokenParse(json).accessToken,
                               !.returnedAt = clock, !.fromCache = TRUE,
                               !.pc = "done"]
           ELSE [run[c] EXCEPT !.cachedDataJson = json, !.pc = "request"]]
  /\ UNCHANGED <<envReminder, clock, kv, lastOffAlert>>

\* Variant: the cache read is made outside the try block.
CacheGetFailT_Rejects(c) ==
  /\ run[c].pc = "cacheget"
  /\ run' = [run EXCEPT ![c].threw = TRUE, ![c].returnedAt = clock,
                        ![c].pc = "done"]
  /\ UNCHANGED <<envReminder, clock, kv, lastOffAlert>>

\* await tokenCacheKV.get rejects: logged, a new token is requested.
CacheGetFailT(c) ==
  /\ run[c].pc = "cacheget"
  /\ run' = [run EXCEPT ![c].pc = "request"]
  /\ UNCHANGED <<envReminder, clock, kv, lastOffAlert>>

\* The OAuth endpoint issues a token; its answer is on its way.
IssueT(c) ==
  /\ run[c].pc = "request"
  /\ \E e \in ExpiresInChoices :
       run' = [run EXCEPT
                 ![c].newTokenData = [access_token |-> AccessToken(clock, e),
                                      expires_in |-> e],
                 ![c].pc = "response"]
  /\ UNCHANGED <<envReminder, clock, kv, lastOffAlert>>

\* fetchNewTailscaleAccessToken throws: the call rejects.
RequestFailT(c) ==
  /\ run[c].pc = "request"
  /\ run' = [run EXCEPT ![c].threw = TRUE, ![c].returnedAt = clock,
                        ![c].pc = "done"]
  /\ UNCHANGED <<envReminder, clock, kv, lastOffAlert>>

\* The answer has arrived: expiresAt is computed from Date.now(), the put
\* resolves, the new token is returned.  (A put whose expirationTtl is not
\* a number does not resolve.)
ResponseT(c) ==
  /\ run[c].pc = "response"
  /\ ~TokenExpiryBufferSeconds.isNaN
  /\ LET nt == run[c].newTokenData
         ea == ExpiresAt(clock, nt.expires_in, TokenExpiryBufferSeconds)
     IN  /\ kv' = [kv EXCEPT ![TokenKVKey] =
                     CacheEntry(TokenStringify(nt.access_token, ea),
                                CacheExpiration(clock, nt.expires_in,
                                                TokenExpiryBufferSeconds))]
         /\ run' = [run EXCEPT ![c].expiresAt = ea, ![c].cachedAt = clock,
                               ![c].putDone = TRUE,
                               ![c].returned = nt.access_token,
                               ![c].returnedAt = clock, ![c].pc = "done"]
  /\ UNCHANGED <<envReminder, clock, lastOffAlert>>

\* As ResponseT, but the put rejects: logged, the new token is returned.
ResponsePutFailT(c) ==
  /\ run[c].pc = "response"
  /\ LET nt == run[c].newTokenData
         ea == ExpiresAt(clock, nt.expires_in, TokenExpiryBufferSeconds)
     IN  run' = [run EXCEPT ![c].expiresAt = ea, ![c].cachedAt = clock,
                            ![c].returned = nt.access_token,
                            ![c].returnedAt = clock, ![c].pc = "done"]
  /\ UNCHANGED <<envReminder, clock, kv, lastOffAlert>>

\* The caller has its token (or its exception).
DoneT(c) ==
  /\ run[c].pc = "done"
  /\ run' = [run EXCEPT ![c] = IdleRunT]
  /\ UNCHANGED <<envReminder, clock, kv, lastOffAlert>>

NextTok ==
  \/ TickT
  \/ ExpireT
  \/ \E c \in ErrCycles : CallT(c)
  \/ \E c \in ErrCycles : CacheGetT(c)
  \/ \E c \in ErrCycles : CacheGetFailT(c)
  \/ \E c \in ErrCycles : IssueT(c)
  \/ \E c \in ErrCycles : RequestFailT(c)
  \/ \E c \in ErrCycles : ResponseT(c)
  \/ \E c \in ErrCycles : ResponsePutFailT(c)
  \/ \E c \in ErrCycles : DoneT(c)

\* Calls of getTailscaleAccessToken, one at a time, while time passes.
SpecTok == InitTok /\ [][NextTok]_vars

\* Slot c has returned a token taken from the cache.
ServedFromCache(c) == run[c].pc = "done" /\ run[c].fromCache

\* The milliseconds of validity the returned token of slot c had left when
\* it was returned.
Remaining(c) == RealExpiry(run[c].returned) - run[c].returnedAt

\* Part of C29 that holds as stated: a token is returned from the cache only
\* at an instant before the cached expiresAt; a call that does not return
\* from the cache requests a new token, computes expiresAt = Date.now() +
\* (expires_in - buffer) * 1000 and, when the put resolves, leaves that
\* token and that expiresAt in the cache (until the store drops the entry).
CacheDiscipline(c) ==
  /\ ServedFromCache(c)
       => /\ run[c].cachedDataJson # NullJSON
          /\ run[c].returned = run[c].cachedDataJson[1]
          /\ ~run[c].cachedDataJson[2].isNull
          /\ run[c].returnedAt < run[c].cachedDataJson[2].n
  /\ (run[c].pc = "done" /\ ~run[c].fromCache /\ ~run[c].threw)
       => /\ run[c].returned = run[c].newTokenData.access_token
          /\ run[c].returned # NoToken
          /\ ~run[c].expiresAt.isNaN
               => run[c].expiresAt.n =
                    run[c].cachedAt
                      + (run[c].newTokenData.expires_in - TokenExpiryBufferSeconds.n)
                          * MsPerSecond
          /\ (run[c].putDone /\ kv[TokenKVKey].json # NullJSON)
               => /\ kv[TokenKVKey].json[1] = run[c].returned
                  /\ kv[TokenKVKey].json[2].isNull = run[c].expiresAt.isNaN
                  /\ kv[TokenKVKey].json[2].n = run[c].expiresAt.n

MaxMsgClock == MaxMsgMinutes * MsPerMinute

\* Steps of Date.now() between two cycles (ms).
MsgTickChoices == {4000, 26000, 60000}

\* Date.now() of the first cycle, and of the cycle before it that wrote
\* the record the first cycle finds.
MsgStart == 5000

PriorNow == 1000

\* Records found in the store by the first cycle: none, an online one, an
\* open outage, and an OFFLINE record without firstDownTs (the store is
\* read as whatever JSON it holds).
PriorRecordChoices ==
  { NullJSON,
    JSONStringify(OnlineRecord),
    JSONStringify(StateRec("OFFLINE", PriorNow, PriorNow)),
    JSONStringify(StateRec("OFFLINE", PriorNow, 0)) }

MsgDevice == DeviceList[1]

\* The text of a notification, reduced to its kind and to the minutes it
\* names as the length of the outage (<<>>: the text names none).
Message(kind, duration) == [kind |-> kind, duration |-> duration]

NoMessage == Message("none", <<>>)

\* `OFFLINE ... Last Seen: ...`: the initial alert names no duration.
InitialDownMessage == Message("down", <<>>)

\* Math.round(ms / (1000 * 60))
RoundedMinutes(ms) == MathRoundMinutes(Num(ms)).n

\* totalDownMinutes = Math.round((now - firstDownTimestamp) / (1000 * 60));
\* `... Outage Duration: Approx ${totalDownMinutes} mins`
TotalDownMs(previousStateData, now) ==
  now - FirstDownTimestamp(previousStateData, now)

ReminderMessage(previousStateData, now) ==
  Message("reminder", <<RoundedMinutes(TotalDownMs(previousStateData, now))>>)

\* Variant: the outage is counted from the latest alert.
OutageDurationMs_SinceAlert(previousStateData, now) ==
  now - previousStateData.alertTs

\* outageDurationMs = now - (previousStateData.firstDownTs || now)
OutageDurationMs(previousStateData, now) ==
  now - (IF previousStateData.firstDownTs # 0
         THEN previousStateData.firstDownTs ELSE now)

\* message = `... ONLINE`; if (previousStateData.firstDownTs &&
\* outageDurationMinutes > 0) message += `Was OFFLINE for approx. N mins.`
RecoveryMessage(previousStateData, now) ==
  LET outageDurationMinutes ==
        RoundedMinutes(OutageDurationMs(previousStateData, now))
  IN  Message("recovery",
              IF previousStateData.firstDownTs # 0 /\ outageDurationMinutes > 0
              THEN <<outageDurationMinutes>> ELSE <<>>)

\* The text handed to sendTelegramNotification for a decision.
NotificationText(alert, previousStateData, now) ==
  CASE alert = "down"     -> InitialDownMessage
    [] alert = "reminder" -> ReminderMessage(previousStateData, now)
    [] alert = "recovery" -> RecoveryMessage(previousStateData, now)
    [] OTHER              -> NoMessage

\* The duration in ms the code computed for the text (0 when it computes
\* none).
ComputedDurationMs(alert, previousStateData, now) ==
  CASE alert = "reminder" -> TotalDownMs(previousStateData, now)
    [] alert = "recovery" -> OutageDurationMs(previousStateData, now)
    [] OTHER              -> 0

\* An idle slot of SpecMsg.
IdleRunM ==
  [pc |-> "idle",
   previousStateData |-> StateRec(Null, 0, 0),
   isOnline |-> TRUE,
   now |-> 0,
   durationMs |-> 0,
   message |-> NoMessage]

InitMsg ==
  /\ envReminder \in {<<"0">>, <<"1">>}
  /\ clock = MsgStart
  /\ \E j \in PriorRecordChoices :
       kv = [d \in Devices |-> IF d = MsgDevice THEN j ELSE NullJSON]
  /\ run = [c \in Cycles |-> IdleRunM]
  /\ lastOffAlert = [d \in Devices |-> 0]

\* Time passes between two cycles.
TickM ==
  /\ \A c \in Cycles : run[c].pc = "idle"
  /\ \E step \in MsgTickChoices :
       /\ clock + step <= MaxMsgClock
       /\ clock' = clock + step
  /\ UNCHANGED <<envReminder, kv, run, lastOffAlert>>

\* A cycle handles the device: get, decision, notification, put.
ReconcileM(c) ==
  /\ run[c].pc = "idle"
  /\ \E isOnline \in BOOLEAN :
       LET previousStateData == PreviousStateData(kv[MsgDevice])
           dec == Reconcile(previousStateData, isOnline, clock,
                            config.reminderIntervalMinutes)
       IN  /\ run' = [run EXCEPT ![c] =
                        [pc |-> "sent",
                         previousStateData |-> previousStateData,
                         isOnline |-> isOnline,
                         now |-> clock,
                         durationMs |->
                           ComputedDurationMs(dec.alert, previousStateData, clock),
                         message |->
                           NotificationText(dec.alert, previousStateData, clock)]]
           /\ kv' = IF dec.needsKVWrite
                    THEN [kv EXCEPT ![MsgDevice] = JSONStringify(dec.newKVData)]
                    ELSE kv
  /\ UNCHANGED <<envReminder, clock, lastOffAlert>>

\* The cycle ends.
DoneM(c) ==
  /\ run[c].pc = "sent"
  /\ run' = [run EXCEPT ![c] = IdleRunM]
  /\ UNCHANGED <<envReminder, clock, kv, lastOffAlert>>

NextMsg ==
  \/ TickM
  \/ \E c \in ErrCycles : ReconcileM(c)
  \/ \E c \in ErrCycles : DoneM(c)

\* Cycles over one device, one at a time, while time passes.
SpecMsg == InitMsg /\ [][NextMsg]_vars

\* Slot c has handed a reminder or a recovery text to the sender.
SentOutageText(c) ==
  run[c].pc = "sent" /\ run[c].message.kind \in {"reminder", "recovery"}

\* C30 as stated (the duration read in the unit of the text): every
\* reminder and every recovery notification of an outage whose prior record
\* has a firstDownTs names, as the length of the outage, now - firstDownTs
\* of that record, whatever its alertTs; a prior record without firstDownTs
\* never yields a negative duration.
C30_DurationReported ==
  \A c \in Cycles :
    SentOutageText(c)
      => LET p == run[c].previousStateData
         IN  /\ p.firstDownTs # 0
                  => /\ run[c].message.duration # <<>>
                     /\ run[c].message.duration[1]
                          = (2 * (run[c].now - p.firstDownTs) + MsPerMinute)
                              \div (2 * MsPerMinute)
             /\ run[c].message.duration # <<>>
                  => run[c].message.duration[1] >= 0

\* C30 as amended: the duration computed for a reminder or a recovery
\* notification is now - firstDownTs of the prior record (0 when that record
\* has no firstDownTs), whatever its alertTs, and is never negative; the
\* text names it in whole minutes, rounded half up; a reminder always names
\* it, a recovery only when the record has a firstDownTs and the rounded
\* minutes are positive.
C30_DurationInMinutesWhenPositive ==
  \A c \in Cycles :
    SentOutageText(c)
      => LET p    == run[c].previousStateData
             ms   == IF p.firstDownTs # 0 THEN run[c].now - p.firstDownTs ELSE 0
             mins == (2 * ms + MsPerMinute) \div (2 * MsPerMinute)
         IN  /\ run[c].durationMs = ms
             /\ ms >= 0
             /\ run[c].message.kind = "reminder"
                  => run[c].message.duration = <<mins>>
             /\ run[c].message.kind = "recovery"
                  => run[c].message.duration
                       = IF p.firstDownTs # 0 /\ mins > 0 THEN <<mins>> ELSE <<>>

\* A recovery is announced for a record whose alertTs is later than its
\* firstDownTs, and the text names the minutes since firstDownTs.
C30_Witness ==
  \E c \in Cycles :
    /\ SentOutageText(c)
    /\ run[c].message.kind = "recovery"
    /\ run[c].previousStateData.alertTs > run[c].previousStateData.firstDownTs
    /\ run[c].previousStateData.firstDownTs # 0
    /\ run[c].message.duration = <<2>>

\* ========================================================================
\* index.js: the reminder under a long interval (SpecLong)
\*
\* SpecLong is SpecMsg with env.REMINDER_INTERVAL_MINUTES of some hours and
\* a clock that moves by about one such interval.
\* ========================================================================

\* Values of env.REMINDER_INTERVAL_MINUTES: 240 as in wrangler.toml, and
\* one minute more.
EnvLongChoices == { <<"2", "4", "0">>, <<"2", "4", "1">> }

\* 240 minutes in ms.
LongIntervalMs == 240 * MsPerMinute

MaxLongClock == PriorNow + MaxLongIntervals * LongIntervalMs

\* Steps of Date.now() between two cycles (ms).
LongTickChoices ==
  {LongIntervalMs - MsPerMinute, LongIntervalMs, LongIntervalMs + MsPerMinute}

InitLong ==
  /\ envReminder \in EnvLongChoices
  /\ clock = PriorNow
  /\ \E j \in PriorRecordChoices :
       kv = [d \in Devices |-> IF d = MsgDevice THEN j ELSE NullJSON]
  /\ run = [c \in Cycles |-> IdleRunM]
  /\ lastOffAlert = [d \in Devices |-> 0]

\* Time passes between two cycles.
TickL ==
  /\ \A c \in Cycles : run[c].pc = "idle"
  /\ \E step \in LongTickChoices :
       /\ clock + step <= MaxLongClock
       /\ clock' = clock + step
  /\ UNCHANGED <<envReminder, kv, run, lastOffAlert>>

NextLong ==
  \/ TickL
  \/ \E c \in ErrCycles : ReconcileM(c)
  \/ \E c \in ErrCycles : DoneM(c)

\* Cycles over one device, one at a time, hours apart.
SpecLong == InitLong /\ [][NextLong]_vars

\* Slot c has handled the device of scenario 3: interval 240 min, prior
\* record {OFFLINE,1000,1000}, observed offline at now = 1000 + 14,400,000.
Scenario3(c) ==
  /\ run[c].pc = "sent"
  /\ envReminder = <<"2", "4", "0">>
  /\ run[c].previousStateData = StateRec("OFFLINE", 1000, 1000)
  /\ ~run[c].isOnline
  /\ run[c].now = 1000 + 14400000

\* C31 as stated: in scenario 3 a reminder is sent and the persisted record
\* is {OFFLINE, 15400000, 1000}.
C31_Reminder240 ==
  \A c \in Cycles :
    Scenario3(c)
      => /\ run[c].message.kind = "reminder"
         /\ kv[MsgDevice] = <<"OFFLINE", 15400000, 1000>>

\* C31 as amended: in scenario 3 a reminder is sent and the persisted record
\* is {OFFLINE, 14401000, 1000}: alertTs is now = 1000 + 14,400,000.
C31_Reminder240AtNow ==
  \A c \in Cycles :
    Scenario3(c)
      => /\ run[c].message.kind = "reminder"
         /\ kv[MsgDevice] = <<"OFFLINE", 14401000, 1000>>

\* Scenario 3 has happened.
C31_Witness ==
  \E c \in Cycles : Scenario3(c) /\ kv[MsgDevice][1] = "OFFLINE"

\* ========================================================================
\* Overlapping cycles and a closed outage episode (Spec)
\* ========================================================================

\* C32: once the recovery write {ONLINE,0,0} of a cycle has landed for a
\* device, an OFFLINE record that lands after it has a firstDownTs no
\* earlier than the `now` at which that recovery was decided.  (Stated
\* while the recovering cycle is still at that device: the record it wrote
\* was ONLINE, so an OFFLINE record in the store has landed later.)
C32_NoReopenAfterRecovery ==
  \A c \in Cycles :
    ( /\ run[c].pc = "next"
      /\ run[c].alerts = <<"recovery">>
      /\ run[c].writes = <<OnlineRecord>>
      /\ kv[Node(c)] # NullJSON
      /\ JSONParse(kv[Node(c)]).state = "OFFLINE" )
      => JSONParse(kv[Node(c)]).firstDownTs >= run[c].now

\* ========================================================================
\* Alerts whose delivery failed (SpecRetry)
\*
\* SpecRetry is SpecErr from an empty store, with one history added: in
\* SpecRetry lastOffAlert[d] is the `now` of the latest initial-down or
\* reminder alert for d whose delivery failed and whose record was
\* persisted (0: none).
\* ========================================================================

InitRetry ==
  /\ envReminder \in EnvReminderChoices
  /\ clock = TickMs
  /\ kv = [d \in Devices |-> NullJSON]
  /\ run = [c \in Cycles |-> IdleRunE]
  /\ lastOffAlert = [d \in Devices |-> 0]

\* The environments of SpecRetry: MONITOR_TAGS = "a", with and without the
\* bot token.
EnvChoicesR == {env \in EnvChoices : env.MONITOR_TAGS = <<"a">>}

\* scheduled is invoked and loads its configuration.
InvokeR(c) ==
  /\ \A o \in Cycles : run[o].pc = "idle"
  /\ \E env \in EnvChoicesR :
       run' = [run EXCEPT ![c] =
                 IF LoadAppConfigThrows(env)
                 THEN [IdleRunE EXCEPT !.env = env, !.failed = "config",
                                       !.pc = "ended"]
                 ELSE [IdleRunE EXCEPT !.env = env, !.pc = "fetch"]]
  /\ UNCHANGED <<envReminder, clock, kv, lastOffAlert>>

\* Variant: the record is persisted only when the alert was delivered.
PutOkR_OnlyIfDelivered(c) ==
  /\ run[c].pc = "put"
  /\ \E net \in IF run[c].alerts = <<>> THEN {"ok"} ELSE NetOutcomes :
       LET rc  == run[c]
           res == SendTelegramNotification(AppConfig(rc.env).telegramBotToken,
                                           AppConfig(rc.env).telegramChatId, net)
       IN  /\ kv' = IF res.success
                    THEN [kv EXCEPT ![Node(c)] = JSONStringify(rc.newKVData)]
                    ELSE kv
           /\ run' = [run EXCEPT ![c] =
                        [rc EXCEPT !.notifyResult = res,
                                   !.writes = IF res.success
                                              THEN <<rc.newKVData>> ELSE <<>>,
                                   !.puts = IF res.success
                                            THEN Append(@, Node(c)) ELSE @,
                                   !.reconciled = @ \cup {Node(c)},
                                   !.pc = "next"]]
           /\ lastOffAlert' =
                IF ~res.success /\ rc.alerts \in {<<"down">>, <<"reminder">>}
                THEN [lastOffAlert EXCEPT ![Node(c)] = rc.now]
                ELSE lastOffAlert
  /\ UNCHANGED <<envReminder, clock>>

\* As PutOkE: the notification call settles, its value is dropped, the put
\* resolves.  The history notes an offline alert that was not delivered.
PutOkR(c) ==
  /\ run[c].pc = "put"
  /\ \E net \in IF run[c].alerts = <<>> THEN {"ok"} ELSE NetOutcomes :
       LET rc  == run[c]
           res == SendTelegramNotification(AppConfig(rc.env).telegramBotToken,
                                           AppConfig(rc.env).telegramChatId, net)
       IN  /\ kv' = [kv EXCEPT ![Node(c)] = JSONStringify(rc.newKVData)]
           /\ run' = [run EXCEPT ![c] =
                        [rc EXCEPT !.notifyResult = res,
                                   !.writes = <<rc.newKVData>>,
                                   !.puts = Append(@, Node(c)),
                                   !.reconciled = @ \cup {Node(c)},
                                   !.pc = "next"]]
           /\ lastOffAlert' =
                IF ~res.success /\ rc.alerts \in {<<"down">>, <<"reminder">>}
                THEN [lastOffAlert EXCEPT ![Node(c)] = rc.now]
                ELSE lastOffAlert
  /\ UNCHANGED <<envReminder, clock>>

NextRetry ==
  \/ TickE
  \/ \E c \in ErrCycles : InvokeR(c)
  \/ \E c \in ErrCycles : FetchOkE(c)
  \/ \E c \in ErrCycles : FetchFailE(c)
  \/ \E c \in ErrCycles : LoopE(c)
  \/ \E c \in ErrCycles : GetOkE(c)
  \/ \E c \in ErrCycles : GetFailE(c)
  \/ \E c \in ErrCycles : DecideE(c)
  \/ \E c \in ErrCycles : PutOkR(c)
  \/ \E c \in ErrCycles : PutFailE(c)
  \/ \E c \in ErrCycles : NextNodeE(c)
  \/ \E c \in ErrCycles : CatchE(c)
  \/ \E c \in ErrCycles : EndE(c)

SpecRetry == InitRetry /\ [][NextRetry]_vars

\* Slot c has attempted an offline alert for the device it is at and its
\* put has resolved; the delivery failed.
FailedAlertPersisted(c) ==
  /\ run[c].pc = "next"
  /\ run[c].alerts \in {<<"down">>, <<"reminder">>}
  /\ ~run[c].notifyResult.success

\* Slot c has just attempted an alert of one of the kinds for the device it
\* is at, less than the reminder interval after an undelivered alert for
\* that device.
AlertedTooSoon(c, kinds) ==
  /\ run[c].pc = "put"
  /\ run[c].alerts \in kinds
  /\ lastOffAlert[Node(c)] # 0
  /\ \/ AppConfig(run[c].env).reminderIntervalMinutes.isNaN
     \/ run[c].now - lastOffAlert[Node(c)]
          < AppConfig(run[c].env).reminderIntervalMinutes.n * MsPerMinute

CatchN_Rethrows(c) ==
  /\ run[c].pc = "catch"
  /\ run' = [run EXCEPT ![c].errAlerts = @ + 1, ![c].pc = "rejected"]
  /\ UNCHANGED <<envReminder, clock, kv, lastOffAlert>>

\* The .catch callback: the error is logged, its message escaped, and
\* `await sendTelegramNotification("Worker Error ...")` settles; a
\* rejection of that call would reject the promise given to ctx.waitUntil.
CatchN(c) ==
  /\ run[c].pc = "catch"
  /\ \E net \in NetOutcomes :
       LET res == SendTelegramNotification(
                    AppConfig(run[c].env).telegramBotToken,
                    AppConfig(run[c].env).telegramChatId, net)
       IN  run' = [run EXCEPT ![c].errAlerts = @ + 1,
                              ![c].notifyResult = res,
                              ![c].pc = IF res.threw THEN "rejected"
                                        ELSE "ended"]
  /\ UNCHANGED <<envReminder, clock, kv, lastOffAlert>>

NextCatch ==
  \/ TickE
  \/ \E c \in ErrCycles : InvokeE(c)
  \/ \E c \in ErrCycles : FetchOkE(c)
  \/ \E c \in ErrCycles : FetchFailE(c)
  \/ \E c \in ErrCycles : LoopE(c)
  \/ \E c \in ErrCycles : GetOkE(c)
  \/ \E c \in ErrCycles : GetFailE(c)
  \/ \E c \in ErrCycles : DecideE(c)
  \/ \E c \in ErrCycles : PutOkE(c)
  \/ \E c \in ErrCycles : PutFailE(c)
  \/ \E c \in ErrCycles : NextNodeE(c)
  \/ \E c \in ErrCycles : CatchN(c)
  \/ \E c \in ErrCycles : EndE(c)

SpecCatch == InitErr /\ [][NextCatch]_vars

\* The cycle in slot c failed after its configuration was loaded.
FailedAfterConfig(c) == run[c].failed \notin {"none", "config"}

\* The devices that come after the one the loop of slot c is at.
LaterDevices(c) ==
  {DeviceList[i] : i \in {j \in 1..Len(DeviceList) : j > run[c].idx}}

\* C34: a cycle that fails after its configuration was loaded (the fetch,
\* or a get, a parse or a put at some device) attempts exactly one "Worker
\* Error" notification and touches no later device; a cycle that does not
\* fail so attempts none; the promise given to ctx.waitUntil never rejects,
\* whatever becomes of the notification.
C34_OneWorkerError ==
  \A c \in Cycles :
    /\ run[c].pc # "rejected"
    /\ (run[c].pc = "ended" /\ FailedAfterConfig(c))
         => /\ run[c].errAlerts = 1
            /\ Touched(c) \cap LaterDevices(c) = {}
            /\ run[c].reconciled \cap (LaterDevices(c) \cup {run[c].failedAt}) = {}
    /\ (run[c].pc = "ended" /\ ~FailedAfterConfig(c)) => run[c].errAlerts = 0
    /\ run[c].pc = "catch" => run[c].errAlerts = 0 /\ FailedAfterConfig(c)

\* A cycle failed at the put of the first device, its "Worker Error"
\* notification was not delivered, and the cycle has ended.
C34_Witness ==
  \E c \in Cycles :
    /\ run[c].pc = "ended"
    /\ run[c].failed = "put" /\ run[c].failedAt = DeviceList[1]
    /\ run[c].errAlerts = 1
    /\ ~run[c].notifyResult.success

\* ========================================================================
\* An empty device list (SpecEmpty)
\*
\* SpecEmpty is SpecErr from an empty store in which the liveness source
\* may also answer with no devices.  In SpecEmpty lastOffAlert is a pair of
\* counters: under the first device the number of cycles that were given
\* an empty list, under the second the number of "no devices"
\* notifications attempted.
\* ========================================================================

EmptyCycles == lastOffAlert[DeviceList[1]]

EmptyNotices == lastOffAlert[DeviceList[2]]

\* getTailscaleNodeDetails resolves with { success: true, devices: [],
\* message: "No devices found" }.
FetchEmptyE(c) ==
  /\ run[c].pc = "fetch"
  /\ EmptyCycles < MaxEmptyCycles
  /\ run' = [run EXCEPT ![c].fetched = TRUE, ![c].pc = "nodevices"]
  /\ lastOffAlert' = [lastOffAlert EXCEPT ![DeviceList[1]] = @ + 1]
  /\ UNCHANGED <<envReminder, clock, kv>>

\* Variant: the informational notification is sent once only.
NotifyEmptyE_Once(c) ==
  /\ run[c].pc = "nodevices"
  /\ \E net \in NetOutcomes :
       LET res == SendTelegramNotification(
                    AppConfig(run[c].env).telegramBotToken,
                    AppConfig(run[c].env).telegramChatId, net)
       IN  /\ run' = [run EXCEPT ![c].alerts =
                                   IF EmptyNotices = 0 THEN <<"no_devices">>
                                   ELSE <<>>,
                                 ![c].notifyResult = res,
                                 ![c].pc = "ended"]
           /\ lastOffAlert' = [lastOffAlert EXCEPT ![DeviceList[2]] =
                                 IF @ = 0 THEN 1 ELSE @]
  /\ UNCHANGED <<envReminder, clock, kv>>

\* statusResult.message === "No devices found": the informational
\* notification is awaited and the callback returns.
NotifyEmptyE(c) ==
  /\ run[c].pc = "nodevices"
  /\ \E net \in NetOutcomes :
       LET res == SendTelegramNotification(
                    AppConfig(run[c].env).telegramBotToken,
                    AppConfig(run[c].env).telegramChatId, net)
       IN  /\ run' = [run EXCEPT ![c] =
                        IF res.threw
                        THEN Throw([run[c] EXCEPT !.alerts = <<"no_devices">>,
                                                  !.notifyResult = res],
                                   "notify")
                        ELSE [run[c] EXCEPT !.alerts = <<"no_devices">>,
                                            !.notifyResult = res,
                                            !.pc = "ended"]]
           /\ lastOffAlert' = [lastOffAlert EXCEPT ![DeviceList[2]] = @ + 1]
  /\ UNCHANGED <<envReminder, clock, kv>>

NextEmpty ==
  \/ TickE
  \/ \E c \in ErrCycles : InvokeR(c)
  \/ \E c \in ErrCycles : FetchOkE(c)
  \/ \E c \in ErrCycles : FetchEmptyE(c)
  \/ \E c \in ErrCycles : NotifyEmptyE(c)
  \/ \E c \in ErrCycles : FetchFailE(c)
  \/ \E c \in ErrCycles : LoopE(c)
  \/ \E c \in ErrCycles : GetOkE(c)
  \/ \E c \in ErrCycles : GetFailE(c)
  \/ \E c \in ErrCycles : DecideE(c)
  \/ \E c \in ErrCycles : PutOkE(c)
  \/ \E c \in ErrCycles : PutFailE(c)
  \/ \E c \in ErrCycles : NextNodeE(c)
  \/ \E c \in ErrCycles : CatchE(c)
  \/ \E c \in ErrCycles : EndE(c)

SpecEmpty == InitRetry /\ [][NextEmpty]_vars

\* The cycle in slot c was given an empty device list and has ended.
EndedOnEmptyList(c) ==
  /\ run[c].pc = "ended"
  /\ run[c].fetched /\ run[c].idx = 0 /\ run[c].failed = "none"

\* C35: a cycle that is given an empty device list attempts exactly one
\* "no devices" notification and no other, and reads and writes no key of
\* the store; every such cycle does, however many did before it.
C35_EmptyListNotice ==
  /\ \A c \in Cycles :
       /\ EndedOnEmptyList(c)
            => /\ run[c].alerts = <<"no_devices">>
               /\ run[c].devAlerts = <<>> /\ run[c].errAlerts = 0
               /\ run[c].gets = <<>> /\ run[c].puts = <<>>
       /\ run[c].pc = "nodevices"
            => /\ run[c].alerts = <<>>
               /\ run[c].gets = <<>> /\ run[c].puts = <<>>
  /\ EmptyNotices
       = EmptyCycles - Cardinality({c \in Cycles : run[c].pc = "nodevices"})

\* The second cycle that was given an empty list has attempted its
\* notification, with records of earlier cycles in the store.
C35_Witness ==
  \E c \in Cycles :
    /\ EndedOnEmptyList(c)
    /\ run[c].alerts = <<"no_devices">>
    /\ EmptyNotices = 2
    /\ \E d \in Devices : kv[d] # NullJSON

\* ========================================================================
\* The status query over a store with entries it cannot show (SpecQueryBad)
\*
\* SpecQueryBad is SpecQuery from a store that may hold, besides the cached
\* token, an unparsable value under the key of the first device's later
\* name; the cycles see the device under its first name only.
\* ========================================================================

\* The status key whose value may be unparsable.
BadValueKey == KvKey(NodeIdList[1], <<"b">>)

InitQueryBad ==
  /\ envReminder = <<"1">>
  /\ clock = TickMs
  /\ kv \in {[k \in AllKeys |->
                CASE k = TokenKVKey  -> t
                  [] k = BadValueKey -> b
                  [] OTHER           -> NullJSON] :
               t \in {NullJSON, TokenJSON}, b \in {NullJSON, Corrupt}}
  /\ run = [c \in Cycles |-> IdleRunQ]
  /\ lastOffAlert = [d \in Devices |-> 0]

\* scheduled is invoked while the first device has its first name.
CycleFirstNameQ(c) ==
  /\ CycleQ(c)
  /\ KvKey(NodeIdList[1], ShortNodeName(run'[c].devices[1].name)) # BadValueKey

NextQueryBad ==
  \/ TickE
  \/ \E c \in ErrCycles : CycleFirstNameQ(c)
  \/ \E c \in ErrCycles : BodyQ(c)
  \/ \E c \in QueryCycles : RequestQ(c)
  \/ \E c \in QueryCycles : ListQ(c)
  \/ \E c \in QueryCycles : ListFailQ(c)
  \/ \E c \in QueryCycles : GetQ(c)
  \/ \E c \in QueryCycles : GetFailQ(c)
  \/ \E c \in QueryCycles : EndQ(c)

SpecQueryBad == InitQueryBad /\ [][NextQueryBad]_vars

\* The query in slot c is answered and its list and all its gets resolved.
AnsweredAfterAllGets(c) ==
  /\ AnsweredGet(c)
  /\ run[c].listed
  /\ run[c].idx = Len(run[c].keys) + 1

\* Key k has the form node:<id>:<name>.
IsStatusKeyForm(k) ==
  /\ Len(SplitOn(k, ":")) = 3
  /\ SplitOn(k, ":")[1] = <<"n", "o", "d", "e">>

\* C36: a status query whose list and gets resolve is answered with
\* success, and its data are, in the order of the listed keys, the entries
\* of exactly those keys that have the form node:<id>:<name> and a value
\* that parses: a key of another form and an unparsable value are skipped.
C36_BadEntriesSkipped ==
  \A c \in Cycles :
    AnsweredAfterAllGets(c)
      => LET shown == SelectSeq(run[c].keys,
                                LAMBDA k : IsStatusKeyForm(k) /\ kv[k] # Corrupt)
             data  == run[c].response.data
         IN  /\ run[c].response.status = 200
             /\ run[c].response.success
             /\ Len(data) = Len(shown)
             /\ \A j \in 1..Len(shown) :
                  /\ data[j].nodeId = SplitOn(shown[j], ":")[2]
                  /\ data[j].shortName = SplitOn(shown[j], ":")[3]
                  /\ data[j].status.state = kv[shown[j]][1]

\* A query over a store that holds the cached token, an unparsable value
\* and two status records is answered with the two records.
C36_Witness ==
  \E c \in Cycles :
    /\ AnsweredAfterAllGets(c)
    /\ kv[TokenKVKey] # NullJSON
    /\ kv[BadValueKey] = Corrupt
    /\ Len(run[c].keys) = 4
    /\ Len(run[c].response.data) = 2

\* ========================================================================
\* Overlapping calls of getTailscaleAccessToken (SpecTokOverlap)
\*
\* SpecTokOverlap is SpecTok with both slots calling and with a cache that
\* may hold a text JSON.parse throws on.
\* ========================================================================

InitTokOverlap ==
  /\ envReminder \in {<<"1">>, <<"1", "s">>}
  /\ clock = MsPerSecond
  /\ kv \in {[k \in {TokenKVKey} |-> e] :
               e \in {NoCacheEntry, CacheEntry(Corrupt, MaxTokenClock)}}
  /\ run = [c \in Cycles |-> IdleRunT]
  /\ lastOffAlert = [d \in Devices |-> 0]

\* await tokenCacheKV.get resolves with nothing or with a text that parses.
CacheGetParsedT(c) ==
  /\ kv[TokenKVKey].json # Corrupt
  /\ CacheGetT(c)

\* await tokenCacheKV.get resolves with a text JSON.parse throws on: the
\* exception is caught and logged, a new token is requested.
CacheGetCorruptT(c) ==
  /\ run[c].pc = "cacheget"
  /\ kv[TokenKVKey].json = Corrupt
  /\ run' = [run EXCEPT ![c].cachedDataJson = Corrupt, ![c].pc = "request"]
  /\ UNCHANGED <<envReminder, clock, kv, lastOffAlert>>

NextTokOverlap ==
  \/ TickT
  \/ ExpireT
  \/ \E c \in Cycles : CallT(c)
  \/ \E c \in Cycles : CacheGetParsedT(c)
  \/ \E c \in Cycles : CacheGetCorruptT(c)
  \/ \E c \in Cycles : CacheGetFailT(c)
  \/ \E c \in Cycles : IssueT(c)
  \/ \E c \in Cycles : RequestFailT(c)
  \/ \E c \in Cycles : ResponseT(c)
  \/ \E c \in Cycles : ResponsePutFailT(c)
  \/ \E c \in Cycles : DoneT(c)

SpecTokOverlap == InitTokOverlap /\ [][NextTokOverlap]_vars

\* Both slots have returned a newly fetched token and both cache puts
\* resolved.
BothFetchedAndCached(r) ==
  \A c \in Cycles :
    /\ r[c].pc = "done" /\ ~r[c].threw /\ ~r[c].fromCache /\ r[c].putDone

\* C37: a call starts to fail only in the step in which its token request
\* fails, never in a cache read or a cache write; every call that ends
\* without failing returns a token, a newly fetched one unless the cache
\* served it; and when two overlapping calls have both fetched and cached
\* a token, each returns its own and the cache, until the store drops the
\* entry, holds one of the two.
C37_CacheFailuresTolerated ==
  [][\A c \in Cycles :
       /\ (run'[c].threw /\ ~run[c].threw) => run[c].pc = "request"
       /\ (run'[c].pc = "done" /\ ~run'[c].threw)
            => /\ run'[c].returned # NoToken
               /\ ~run'[c].fromCache
                    => run'[c].returned = run'[c].newTokenData.access_token
       /\ (BothFetchedAndCached(run') /\ kv'[TokenKVKey].json # NullJSON)
            => \E o \in Cycles :
                 kv'[TokenKVKey].json[1] = run'[o].newTokenData.access_token
    ]_vars

\* Two overlapping calls, one of which read an unparsable cache text, have
\* returned two different new tokens and the cache holds one of them.
C37_Witness ==
  /\ BothFetchedAndCached(run)
  /\ \E c \in Cycles : run[c].cachedDataJson = Corrupt
  /\ \E c, o \in Cycles : run[c].returned # run[o].returned
  /\ kv[TokenKVKey].json # NullJSON
  /\ \E c \in Cycles : kv[TokenKVKey].json[1] = run[c].returned

====
